---- MODULE Spec2Model ----
(***************************************************************************)
(* RealTimeTaskManager backend: the task lifecycle (TaskViewSet), the      *)
(* assignment proposal workflow, the chat rooms (ChatRoomManager,          *)
(* ChatConsumer) and the channel-layer fan-out, as state machines over the *)
(* database rows and the channel-layer groups.                             *)
(***************************************************************************)
EXTENDS Integers, Sequences, FiniteSets, TLC

VARIABLES
    tasks,        \* Task rows: id -> [status, completed_at, created_by, assigned_to, priority]
    activity,     \* ActivityLog rows, in insertion order
    assignments,  \* TaskAssignment rows: id -> [task, user, assigned_by, status, reason, responded_at]
    rooms,        \* ChatRoom rows: id -> [room_type, task, participants]
    messages,     \* Message rows, in insertion order
    notifRows,    \* Notification rows, in insertion order
    is_online,    \* User.is_online: user id -> BOOLEAN
    pushes,       \* channel-layer group_send calls on notifications_<user>, in order
    groups,       \* channel layer: group name -> set of channel names
    inbox,        \* frames each chat connection sent to its client, in order
    conns,        \* ChatConsumer instances: channel -> [user, room_group_name]
    reqs,         \* requests in flight (handlers between two database statements)
    clock,        \* timezone.now(), a logical clock
    last          \* the last request and its response

vars == <<tasks, activity, assignments, rooms, messages, notifRows, is_online,
          pushes, groups, inbox, conns, reqs, clock, last>>

----------------------------------------------------------------------------
(* Bounds of the model *)

\* rows the activity log may hold before the mutating handlers stop
MaxLog == 2
\* rows the chat_room table may hold before room creation stops
MaxRooms == 3
\* rows the activity log may hold before respond_assignment stops answering
MaxAssignLog == 3
\* rows the task_assignment table may hold
MaxAssignments == 2
\* rows the message table may hold, and error frames a connection may be
\* sent, before send_message stops
MaxMessages == 1

----------------------------------------------------------------------------
(* Users (apps/users/models.py) *)

\* user ids; 1 is a supervisor, 2 an atl, 3 a clerk
Users == {1, 2, 3}

\* the ids a client may name: the users and an id no user row has
UserIds == Users \cup {4}

role == [u \in Users |->
            CASE u = 1 -> "supervisor"
              [] u = 2 -> "atl"
              [] OTHER -> "clerk"]

username == [u \in Users |->
            CASE u = 1 -> "sup"
              [] u = 2 -> "atl"
              [] OTHER -> "clerk"]

\* JSON null / a key that is not in the payload or the dict
Absent == "<absent>"

\* NULL in a nullable text column
Null == "<null>"

\* Python truthiness of an optional string
Truthy(x) == x \notin {Absent, ""}

\* None where a row id or a timestamp is expected (ids and the clock start at 1)
None == 0

----------------------------------------------------------------------------
(* Task status (apps/tasks/models.py) *)

Status == {"todo", "in_progress", "review", "done", "cancelled"}

ALLOWED_TRANSITIONS_broken ==
    [s \in Status |->
        CASE s = "todo"        -> {"in_progress", "cancelled"}
          [] s = "in_progress" -> {"review", "done", "cancelled"}
          [] s = "review"      -> {"in_progress", "done", "cancelled"}
          [] s = "done"        -> {"in_progress"}
          [] OTHER             -> {}]

ALLOWED_TRANSITIONS ==
    [s \in Status |->
        CASE s = "todo"        -> {"in_progress", "cancelled"}
          [] s = "in_progress" -> {"review", "done", "cancelled"}
          [] s = "review"      -> {"in_progress", "done", "cancelled"}
          [] s = "done"        -> {}
          [] OTHER             -> {}]

\* Task.can_transition: ALLOWED_TRANSITIONS.get(self.status, []) holds new_status
can_transition(status, new_status) ==
    IF status \in DOMAIN ALLOWED_TRANSITIONS
    THEN new_status \in ALLOWED_TRANSITIONS[status]
    ELSE FALSE

----------------------------------------------------------------------------
(* The database and the channel layer as one value, so that a handler is   *)
(* the composition of the statements it executes, in the code's order.     *)

Cur == [tasks |-> tasks, activity |-> activity, assignments |-> assignments,
        rooms |-> rooms, messages |-> messages, notifRows |-> notifRows,
        is_online |-> is_online, pushes |-> pushes, groups |-> groups,
        inbox |-> inbox, clock |-> clock, up |-> TRUE]

\* the channel layer (Redis) cannot be reached while a handler runs: every
\* call of the layer raises
Unreachable(w) == [w EXCEPT !.up = FALSE]

Commit(w) ==
    /\ tasks' = w.tasks
    /\ activity' = w.activity
    /\ assignments' = w.assignments
    /\ rooms' = w.rooms
    /\ messages' = w.messages
    /\ notifRows' = w.notifRows
    /\ is_online' = w.is_online
    /\ pushes' = w.pushes
    /\ groups' = w.groups
    /\ inbox' = w.inbox
    /\ clock' = w.clock

\* the order in which a queryset over users is iterated (by primary key)
UserOrder == <<1, 2, 3>>

UsersIn(S) == SelectSeq(UserOrder, LAMBDA u : u \in S)

RECURSIVE FoldSeq(_, _, _)
\* for x in seq: w = f(w, x)
FoldSeq(f(_, _), w, seq) ==
    IF seq = <<>> THEN w ELSE FoldSeq(f, f(w, Head(seq)), Tail(seq))

----------------------------------------------------------------------------
(* Notifications (apps/notifications/models.py) *)

Members(w, group) == {c \in DOMAIN w.inbox : <<group, c>> \in w.groups}

\* NotificationConsumer.send_notification: the frame sent to the client
send_notification(event) == [type |-> "notification", data |-> event.data]

send_notification_ws_to_all(w, user_id, data) ==
    IF ~w.up THEN w
    ELSE LET group == <<"notifications", user_id>>
             event == [group |-> group, type |-> "send_notification",
                       data |-> data]
         IN [w EXCEPT !.pushes = Append(@, event),
                      !.inbox = [c \in DOMAIN @ |->
                            IF \E m \in w.groups :
                                    m[2] = c /\ m[1][1] = "notifications"
                            THEN Append(@[c], send_notification(event))
                            ELSE @[c]]]

\* send_notification_ws: group_send to notifications_<user_id>, which every
\* NotificationConsumer of the group turns into a frame; an exception of the
\* channel layer is caught and logged
send_notification_ws(w, user_id, data) ==
    IF ~w.up THEN w
    ELSE LET group == <<"notifications", user_id>>
             event == [group |-> group, type |-> "send_notification",
                       data |-> data]
         IN [w EXCEPT !.pushes = Append(@, event),
                      !.inbox = [c \in DOMAIN @ |->
                            IF c \in Members(w, group)
                            THEN Append(@[c], send_notification(event))
                            ELSE @[c]]]

\* Notification.objects.create
Notification_create(w, user, type, data) ==
    [w EXCEPT !.notifRows = Append(@, [user |-> user, type |-> type,
                                       data |-> data, is_read |-> FALSE])]

----------------------------------------------------------------------------
(* Channel layer and chat rows (apps/chat) *)

\* ChatConsumer.chat_message: the frame a joined consumer sends to its client
chat_message(event) == [type |-> "chat_message", data |-> event.message]

\* channel_layer.group_send of a chat_message event: every channel of the
\* group runs its chat_message handler; nothing is delivered when the layer
\* raises
group_send(w, group, event) ==
    IF ~w.up THEN w
    ELSE [w EXCEPT !.inbox = [c \in DOMAIN @ |->
            IF c \in Members(w, group) THEN Append(@[c], chat_message(event))
            ELSE @[c]]]

\* notify_new_message (post_save of chat.Message): a Notification row and a
\* push for every participant of the room except the sender
notify_new_message(w, msg) ==
    LET others == UsersIn(w.rooms[msg.room].participants \ {msg.sender})
        one(v, u) ==
            send_notification_ws(
                Notification_create(v, u, "chat_message",
                    [room_id |-> msg.room, message_id |-> msg.id,
                     sender_id |-> msg.sender]),
                u, [type |-> "chat_message", room_id |-> msg.room])
    IN FoldSeq(one, w, others)

NewMessage(w, room, sender, content, is_read) ==
    [id |-> Len(w.messages) + 1, room |-> room, sender |-> sender,
     content |-> content, timestamp |-> w.clock, is_read |-> is_read]

\* Message.objects.create: the row (timestamp auto_now_add), then post_save
Message_create(w, room, sender, content, is_read) ==
    LET msg == NewMessage(w, room, sender, content, is_read)
    IN notify_new_message(
           [w EXCEPT !.messages = Append(@, msg), !.clock = @ + 1], msg)

\* queryset.first() under ChatRoom.Meta.ordering (-updated_at), None when empty
first(w, found) ==
    IF found = {} THEN None
    ELSE CHOOSE r \in found :
            \A q \in found : w.rooms[q].updated_at <= w.rooms[r].updated_at

\* ChatRoom.objects.filter(room_type='task', task=task)
TaskRooms(w, t) ==
    {r \in DOMAIN w.rooms : w.rooms[r].room_type = "task" /\ w.rooms[r].task = t}

TaskRoomOf(w, t) == first(w, TaskRooms(w, t))

DirectRooms_ordered(w, user1, user2) ==
    {r \in DOMAIN w.rooms :
        /\ w.rooms[r].room_type = "direct"
        /\ user1 \in w.rooms[r].participants
        /\ user2 \in w.rooms[r].participants
        /\ user1 <= user2}

\* the direct rooms both users are participants of
DirectRooms(w, user1, user2) ==
    {r \in DOMAIN w.rooms :
        /\ w.rooms[r].room_type = "direct"
        /\ user1 \in w.rooms[r].participants
        /\ user2 \in w.rooms[r].participants}

\* the id the database gives the next row of a table
NextId(table) ==
    IF DOMAIN table = {} THEN 1
    ELSE (CHOOSE r \in DOMAIN table : \A q \in DOMAIN table : q <= r) + 1

\* ChatRoom.objects.create(...) followed by room.participants.add(...)
ChatRoom_create(w, room_type, task, participants) ==
    LET id == NextId(w.rooms)
    IN [w EXCEPT !.rooms = [r \in DOMAIN @ \cup {id} |->
                    IF r = id
                    THEN [room_type |-> room_type, task |-> task,
                          participants |-> participants,
                          updated_at |-> w.clock]
                    ELSE @[r]],
                 !.clock = @ + 1]

----------------------------------------------------------------------------
(* TaskViewSet helpers (apps/tasks/views.py) *)

\* TaskViewSet.get_queryset: the tasks a user can address
get_queryset(w, u) ==
    {t \in DOMAIN w.tasks :
        CASE role[u] = "supervisor" -> TRUE
          [] role[u] = "atl" ->
                \E a \in w.tasks[t].assigned_to : role[a] \in {"clerk", "atm"}
          [] OTHER -> u \in w.tasks[t].assigned_to \/ w.tasks[t].created_by = u}

\* CanUpdateTaskStatus.has_object_permission
CanUpdateTaskStatus(w, u, t) ==
    role[u] \in {"supervisor", "atl"} \/ u \in w.tasks[t].assigned_to

\* TaskViewSet.create_activity_log
create_activity_log(w, t, u, action, details) ==
    [w EXCEPT !.activity = Append(@, [task |-> t, user |-> u,
                                      action |-> action, details |-> details])]

\* TaskViewSet.create_system_message: no task room, no message; else the
\* Message row and its broadcast to the group task_<room.id>
create_system_message(w, t, sender, content) ==
    LET room == TaskRoomOf(w, t) IN
    IF room = None THEN w
    ELSE LET w1  == Message_create(w, room, sender, content, TRUE)
             msg == w1.messages[Len(w.messages) + 1]
         IN group_send(w1, <<"task", room>>,
                [type |-> "chat_message",
                 message |-> [id |-> msg.id, content |-> msg.content,
                              sender |-> [id |-> sender,
                                          username |-> username[sender]],
                              timestamp |-> msg.timestamp,
                              room_type |-> "task", room_id |-> room,
                              attachments |-> <<>>]])

----------------------------------------------------------------------------
(* Requests and responses *)

Response(op, u, t, data, result, old) ==
    [op |-> op, user |-> u, task |-> t, data |-> data, result |-> result,
     old |-> old]

\* the payloads of update_status: a status (one of them no choice of Status)
\* and an optional reason
Reasons == {"r1"}

StatusPayloads ==
    [status : Status \cup {"nope"}, reason : Reasons \cup {Absent, ""}]

\* StatusUpdateSerializer.is_valid: status is a ChoiceField over Status,
\* reason a CharField(required=False, allow_blank=False)
StatusUpdateSerializer_is_valid(data) ==
    data.status \in Status /\ data.reason # ""

\* "Status changed to {new_status} by {username}", ". Reason: {reason}" appended
\* when there is a reason
system_content(new_status, name, reason) ==
    IF Truthy(reason)
    THEN <<"Status changed to ", new_status, " by ", name,
           ". Reason: ", reason>>
    ELSE <<"Status changed to ", new_status, " by ", name>>

status_details_no_reason(old_status, new_status, reason) ==
    [old_status |-> old_status, new_status |-> new_status]

\* the details of the status_changed entry: the reason key only with a reason
status_details(old_status, new_status, reason) ==
    IF Truthy(reason)
    THEN [old_status |-> old_status, new_status |-> new_status,
          reason |-> reason]
    ELSE [old_status |-> old_status, new_status |-> new_status]

critical_statuses_none == {}

critical_statuses == {"cancelled", "done"}

\* update_status after the checks: the row, the log entry, one push per
\* assignee, the system message
update_status_apply(w, u, t, data) ==
    LET old_status == w.tasks[t].status
        w1 == [w EXCEPT !.tasks[t].status = data.status,
                        !.tasks[t].completed_at =
                            IF data.status = "done" THEN w.clock ELSE @]
        w2 == create_activity_log(w1, t, u, "status_changed",
                  status_details(old_status, data.status, data.reason))
        note(v, a) ==
            send_notification_ws(v, a,
                [type |-> "status_change", task_id |-> t,
                 old_status |-> old_status, new_status |-> data.status])
        w3 == FoldSeq(note, w2, UsersIn(w2.tasks[t].assigned_to))
    IN create_system_message(w3, t, u,
           system_content(data.status, username[u], data.reason))

\* the response of update_status, in the order of the handler's checks
update_status_result(w, u, t, data) ==
    CASE t \notin get_queryset(w, u)               -> "404"
      [] ~CanUpdateTaskStatus(w, u, t)             -> "403"
      [] ~StatusUpdateSerializer_is_valid(data)    -> "400 invalid"
      [] ~can_transition(w.tasks[t].status, data.status)
                                                   -> "400 transition"
      [] data.status \in critical_statuses /\ ~Truthy(data.reason)
                                                   -> "400 reason"
      [] OTHER                                     -> "200"

\* POST /api/tasks/{t}/update_status/
update_status(u, t, data) ==
    LET result == update_status_result(Cur, u, t, data)
        old    == IF t \in DOMAIN tasks THEN tasks[t].status ELSE Null
    IN /\ result = "200" => Len(activity) < MaxLog
       /\ Commit(IF result = "200" THEN update_status_apply(Cur, u, t, data)
                 ELSE Cur)
       /\ last' = Response("update_status", u, t, data, result, old)
       /\ UNCHANGED <<conns, reqs>>

\* POST /api/tasks/{t}/update_status/ while the channel layer is down
update_status_unreachable(u, t, data) ==
    LET result == update_status_result(Cur, u, t, data)
        old    == IF t \in DOMAIN tasks THEN tasks[t].status ELSE Null
    IN /\ result = "200" => Len(activity) < MaxLog
       /\ Commit(IF result = "200"
                 THEN update_status_apply(Unreachable(Cur), u, t, data)
                 ELSE Cur)
       /\ last' = Response("update_status", u, t, data, result, old)
       /\ UNCHANGED <<conns, reqs>>

----------------------------------------------------------------------------
(* PATCH /api/tasks/{t}/ and POST /api/tasks/bulk_update/ *)

Priority == {"low", "normal", "high", "urgent"}

\* the patches a client sends: a status (one of them no choice), or a priority
Patches == {[status |-> s] : s \in Status \cup {"nope"}}
           \cup {[priority |-> "high"]}

\* TaskUpdateSerializer(partial=True).is_valid: choices of status and priority
TaskUpdateSerializer_is_valid(data) ==
    /\ "status" \in DOMAIN data => data.status \in Status
    /\ "priority" \in DOMAIN data => data.priority \in Priority

\* serializer.save() / setattr per validated field, then task.save()
save_fields(row, data) ==
    [f \in DOMAIN row |-> IF f \in DOMAIN data THEN data[f] ELSE row[f]]

\* TaskViewSet.perform_update: the row, the 'updated' entry, a push per
\* assignee when the status changed (due_date is not patched here)
perform_update(w, u, t, data) ==
    LET old_status == w.tasks[t].status
        w1 == [w EXCEPT !.tasks[t] = save_fields(@, data)]
        w2 == create_activity_log(w1, t, u, "updated", <<>>)
        note(v, a) ==
            send_notification_ws(v, a,
                [type |-> "status_change", task_id |-> t,
                 old_status |-> old_status,
                 new_status |-> w1.tasks[t].status])
    IN IF w1.tasks[t].status # old_status
       THEN FoldSeq(note, w2, UsersIn(w2.tasks[t].assigned_to))
       ELSE w2

\* TaskPermissions for partial_update (CanAssignTask, then the queryset and
\* the object permission), then the serializer
partial_update_result(w, u, t, data) ==
    CASE role[u] \notin {"supervisor", "atl"}     -> "403"
      [] t \notin get_queryset(w, u)              -> "404"
      [] ~TaskUpdateSerializer_is_valid(data)     -> "400 invalid"
      [] OTHER                                    -> "200"

partial_update(u, t, data) ==
    LET result == partial_update_result(Cur, u, t, data)
        old    == IF t \in DOMAIN tasks THEN tasks[t].status ELSE Null
    IN /\ result = "200" => Len(activity) < MaxLog
       /\ Commit(IF result = "200" THEN perform_update(Cur, u, t, data)
                 ELSE Cur)
       /\ last' = Response("partial_update", u, t, data, result, old)
       /\ UNCHANGED <<conns, reqs>>

\* the rows of a queryset in its default order (Meta.ordering -created_at)
RECURSIVE TasksIn(_)
TasksIn(S) ==
    IF S = {} THEN <<>>
    ELSE LET t == CHOOSE x \in S : \A y \in S : y <= x
         IN <<t>> \o TasksIn(S \ {t})

\* bulk_update: the rows an atl may touch are those it created or that have
\* a clerk or atm assignee; a supervisor may touch every locked row
tasks_to_update(w, u, ids) ==
    {t \in ids \cap DOMAIN w.tasks :
        \/ role[u] # "atl"
        \/ w.tasks[t].created_by = u
        \/ \E a \in w.tasks[t].assigned_to : role[a] \in {"clerk", "atm"}}

bulk_update_apply(w, u, ids, data) ==
    LET one(v, t) ==
            create_activity_log([v EXCEPT !.tasks[t] = save_fields(@, data)],
                t, u, "bulk_updated", [fields |-> DOMAIN data])
    IN FoldSeq(one, w, TasksIn(tasks_to_update(w, u, ids)))

bulk_update_result(w, u, ids, data) ==
    CASE ids = {}                                  -> "400 ids"
      [] role[u] \notin {"supervisor", "atl"}      -> "403"
      [] ~TaskUpdateSerializer_is_valid(data)      -> "400 invalid"
      [] OTHER                                     -> "200"

bulk_update(u, ids, data) ==
    LET result == bulk_update_result(Cur, u, ids, data)
    IN /\ result = "200" =>
            Len(activity) + Cardinality(tasks_to_update(Cur, u, ids)) <= MaxLog
       /\ Commit(IF result = "200" THEN bulk_update_apply(Cur, u, ids, data)
                 ELSE Cur)
       /\ last' = Response("bulk_update", u, ids, data, result,
                      [t \in ids \cap DOMAIN tasks |-> tasks[t].status])
       /\ UNCHANGED <<conns, reqs>>

----------------------------------------------------------------------------
(* Chat rooms over HTTP (apps/chat/views.py) and the chat socket           *)
(* (apps/chat/consumers.py)                                                *)

\* User.can_view_task
can_view_task(w, u, t) ==
    \/ role[u] = "supervisor"
    \/ w.tasks[t].created_by = u
    \/ u \in w.tasks[t].assigned_to
    \/ /\ role[u] = "atl"
       /\ \E a \in w.tasks[t].assigned_to : role[a] \in {"clerk", "atm"}

\* the response of a room operation: the room it resolved, and whether the
\* operation created it
RoomResponse(op, u, room_id, room_type, result, room, created) ==
    [op |-> op, user |-> u, task |-> room_id, data |-> room_type,
     result |-> result, old |-> Null, room |-> room, created |-> created]

\* room.save(): updated_at is auto_now
ChatRoom_save(w, id) ==
    [w EXCEPT !.rooms[id].updated_at = w.clock, !.clock = @ + 1]

\* participants.add(user)
participants_add(w, room, user) ==
    [w EXCEPT !.rooms[room].participants = @ \cup {user}]

\* unique_together (room_type, task): a row with the same type and the same
\* non-null task makes the INSERT raise IntegrityError
ChatRoom_unique_together(w, room_type, task) ==
    /\ task # None
    /\ \E r \in DOMAIN w.rooms :
            w.rooms[r].room_type = room_type /\ w.rooms[r].task = task

\* ChatRoomViewSet.create up to its lookup of an existing room
ChatRoomViewSet_create_result(w, u, room_type, id) ==
    CASE room_type = "direct" /\ id \notin Users           -> "404"
      [] room_type = "direct" /\ DirectRooms(w, u, id) # {} -> "200"
      [] room_type = "direct"                               -> "201"
      [] room_type = "task" /\ id \notin DOMAIN w.tasks     -> "404"
      [] room_type = "task" /\ ~can_view_task(w, u, id)     -> "403"
      [] room_type = "task" /\ TaskRooms(w, id) # {}        -> "200"
      [] room_type = "task"                                 -> "201"
      [] OTHER                                              -> "400"

\* ChatRoomViewSet.create when the room exists: a task room gets the caller
\* as participant
ChatRoomViewSet_create_existing(w, u, room_type, id) ==
    IF room_type = "task"
    THEN LET room == TaskRoomOf(w, id)
         IN [w |-> participants_add(w, room, u), result |-> "200",
             room |-> room, created |-> FALSE]
    ELSE [w |-> w, result |-> "200",
          room |-> first(w, DirectRooms(w, u, id)), created |-> FALSE]

\* ChatRoomViewSet.create from its INSERT: a direct room of the caller and
\* the other user, or a task room of the creator and the assignees unless
\* the task has a room by now; then room.save()
ChatRoomViewSet_create_insert(w, u, room_type, id) ==
    IF ChatRoom_unique_together(w, room_type,
                                IF room_type = "task" THEN id ELSE None)
    THEN [w |-> w, result |-> "500", room |-> None, created |-> FALSE]
    ELSE [w |-> ChatRoom_save(
                    ChatRoom_create(w, room_type,
                        IF room_type = "task" THEN id ELSE None,
                        IF room_type = "task"
                        THEN {w.tasks[id].created_by}
                                \cup w.tasks[id].assigned_to
                        ELSE {u, id}),
                    NextId(w.rooms)),
          result |-> "201", room |-> NextId(w.rooms), created |-> TRUE]

ChatRoomViewSet_create_apply(w, u, room_type, id) ==
    LET result == ChatRoomViewSet_create_result(w, u, room_type, id) IN
    CASE result = "200" -> ChatRoomViewSet_create_existing(w, u, room_type, id)
      [] result = "201" -> ChatRoomViewSet_create_insert(w, u, room_type, id)
      [] OTHER -> [w |-> w, result |-> result, room |-> None,
                   created |-> FALSE]

\* POST /api/chat/rooms/ {room_type, other_user_id | task_id}
ChatRoomViewSet_create(u, room_type, id) ==
    LET r == ChatRoomViewSet_create_apply(Cur, u, room_type, id)
    IN /\ Cardinality(DOMAIN r.w.rooms) <= MaxRooms
       /\ Commit(r.w)
       /\ last' = RoomResponse("create_room", u, id, room_type, r.result,
                               r.room, r.created)
       /\ UNCHANGED <<conns, reqs>>

Channels == {"c1", "c2"}

\* room_group_name of a consumer that joined nothing
NoGroup == <<>>

\* the group name of a room type and a room id
group_name(room_type, room_id) ==
    CASE room_type = "direct" -> <<"direct", room_id>>
      [] room_type = "task"   -> <<"task", room_id>>
      [] room_type = "group"  -> <<"group", room_id>>
      [] OTHER                -> <<"room", room_id>>

\* ChatRoomManager.get_or_create_direct from its create()
get_or_create_direct_create(w, user1, user2) ==
    [w |-> ChatRoom_create(w, "direct", None, {user1, user2}),
     room |-> NextId(w.rooms), created |-> TRUE]

\* ChatRoomManager.get_or_create_direct, as one database step
get_or_create_direct(w, user1, user2) ==
    LET found == DirectRooms(w, user1, user2) IN
    IF found # {}
    THEN [w |-> w, room |-> first(w, found), created |-> FALSE]
    ELSE get_or_create_direct_create(w, user1, user2)

\* ChatConsumer.get_or_create_direct_room_id: the id of the room with the
\* other user, or the id as given when no user has it
get_or_create_direct_room_id(w, user, other_user_id) ==
    IF other_user_id \in Users
    THEN get_or_create_direct(w, user, other_user_id)
    ELSE [w |-> w, room |-> other_user_id, created |-> FALSE]

\* ChatConsumer.join_room once the room id is known: group_add
join_room_group(got, c, room_type) ==
    [w |-> [got.w EXCEPT !.groups =
                @ \cup {<<group_name(room_type, got.room), c>>}],
     name |-> group_name(room_type, got.room),
     room |-> got.room, created |-> got.created]

\* ChatConsumer.join_room: the group name from the frame, group_add
join_room_apply(w, c, user, room_type, room_id) ==
    join_room_group(
        IF room_type = "direct"
        THEN get_or_create_direct_room_id(w, user, room_id)
        ELSE [w |-> w, room |-> room_id, created |-> FALSE],
        c, room_type)

\* what a join_room leaves behind
join_room_done(c, room_type, room_id, r) ==
    /\ Cardinality(DOMAIN r.w.rooms) <= MaxRooms
    /\ Commit(r.w)
    /\ conns' = [conns EXCEPT ![c].room_group_name = r.name]
    /\ last' = RoomResponse("join_room", conns[c].user, room_id, room_type,
                            "ok", r.room, r.created)

\* a join_room frame on connection c
join_room(c, room_type, room_id) ==
    /\ join_room_done(c, room_type, room_id,
            join_room_apply(Cur, c, conns[c].user, room_type, room_id))
    /\ UNCHANGED reqs

\* ChatRoom.objects.get(id=room_id, room_type=room_type) finds a row
ChatRoom_get(w, room_id, room_type) ==
    room_id \in DOMAIN w.rooms /\ w.rooms[room_id].room_type = room_type

\* a lookup of save_message raised
DoesNotExist(w) == [w |-> w, ok |-> FALSE, room |-> None, created |-> FALSE]

\* ChatRoom.objects.get_or_create(task=task, room_type='task') from its
\* INSERT (the row of a concurrent request is fetched instead), the task's
\* participants for a new room, and the sender as participant
save_message_task(w, user, t) ==
    IF ChatRoom_unique_together(w, "task", t)
    THEN [w |-> participants_add(w, TaskRoomOf(w, t), user), ok |-> TRUE,
          room |-> TaskRoomOf(w, t), created |-> FALSE]
    ELSE [w |-> participants_add(
                    ChatRoom_create(w, "task", t,
                        {w.tasks[t].created_by} \cup w.tasks[t].assigned_to),
                    NextId(w.rooms), user),
          ok |-> TRUE, room |-> NextId(w.rooms), created |-> TRUE]

\* ChatConsumer.save_message up to Message.objects.create: the room the
\* frame resolves to
save_message_room(w, user, room_type, room_id) ==
    CASE room_type = "task" ->
            IF ChatRoom_get(w, room_id, "task")
            THEN [w |-> participants_add(w, room_id, user), ok |-> TRUE,
                  room |-> room_id, created |-> FALSE]
            ELSE IF room_id \notin DOMAIN w.tasks THEN DoesNotExist(w)
            ELSE save_message_task(w, user, room_id)
      [] room_type = "direct" ->
            IF ChatRoom_get(w, room_id, "direct")
            THEN [w |-> w, ok |-> TRUE, room |-> room_id, created |-> FALSE]
            ELSE IF room_id \notin Users THEN DoesNotExist(w)
            ELSE LET got == get_or_create_direct(w, user, room_id)
                 IN [w |-> got.w, ok |-> TRUE, room |-> got.room,
                     created |-> got.created]
      [] room_type = "group" ->
            IF ChatRoom_get(w, room_id, "group")
            THEN [w |-> w, ok |-> TRUE, room |-> room_id, created |-> FALSE]
            ELSE DoesNotExist(w)
      [] OTHER ->
            IF room_id \in DOMAIN w.rooms
            THEN [w |-> w, ok |-> TRUE, room |-> room_id, created |-> FALSE]
            ELSE DoesNotExist(w)

\* the lookups of save_message find no room and the next statement is the
\* INSERT of one
save_message_inserts(w, user, room_type, room_id) ==
    CASE room_type = "task" ->
            /\ ~ChatRoom_get(w, room_id, "task")
            /\ room_id \in DOMAIN w.tasks
            /\ TaskRooms(w, room_id) = {}
      [] room_type = "direct" ->
            /\ ~ChatRoom_get(w, room_id, "direct")
            /\ room_id \in Users
            /\ DirectRooms(w, user, room_id) = {}
      [] OTHER -> FALSE

\* save_message from that INSERT
save_message_room_insert(w, user, room_type, room_id) ==
    IF room_type = "task" THEN save_message_task(w, user, room_id)
    ELSE LET got == get_or_create_direct_create(w, user, room_id)
         IN [w |-> got.w, ok |-> TRUE, room |-> got.room,
             created |-> got.created]

\* handle_send_message when the channel layer raises after save_message: the
\* Message row is stored, group_discard raises for a connection that is in
\* another group, else room_group_name is set and group_add or group_send
\* raises; the except branch sends the error frame
send_message_raised(c, conn, data, r) ==
    LET w1 == Message_create(r.w, r.room, conn.user, data.message, FALSE)
    IN [w |-> [w1 EXCEPT !.inbox[c] = Append(@,
                    [type |-> "error",
                     data |-> [message |-> "Failed to send message",
                               original_message |-> data.message]])],
        conn |-> IF conn.room_group_name = NoGroup
                 THEN [conn EXCEPT !.room_group_name =
                                        group_name(data.room_type, r.room)]
                 ELSE conn]

\* handle_send_message of a frame whose message is JSON null: save_message
\* raises (on its lookup, or else Message.objects.create on the NOT NULL
\* content), and in the except branch data.get('message', '')[:100] raises
\* TypeError on None; no frame is sent, the exception leaves receive and
\* ends the consumer without its disconnect handler
send_message_unhandled(conn, r) ==
    [w |-> r.w, conn |-> [conn EXCEPT !.open = FALSE]]

\* handle_send_message once the room is resolved (r): the Message row, the
\* move of the connection into the broadcast group, the broadcast; or the
\* error frame when save_message raised
send_message_apply(c, conn, data, r) ==
    IF data.message = Null THEN send_message_unhandled(conn, r)
    ELSE IF ~r.ok
    THEN [w |-> [r.w EXCEPT !.inbox[c] = Append(@,
                    [type |-> "error",
                     data |-> [message |-> "Failed to send message",
                               original_message |-> data.message]])],
          conn |-> conn]
    ELSE IF ~r.w.up THEN send_message_raised(c, conn, data, r)
    ELSE LET w1 == Message_create(r.w, r.room, conn.user, data.message, FALSE)
             msg == w1.messages[Len(r.w.messages) + 1]
             broadcast_group == group_name(data.room_type, r.room)
             left == IF conn.room_group_name # NoGroup
                     THEN {<<conn.room_group_name, c>>} ELSE {}
             w2 == IF conn.room_group_name # broadcast_group
                   THEN [w1 EXCEPT !.groups =
                            (@ \ left) \cup {<<broadcast_group, c>>}]
                   ELSE w1
         IN [w |-> group_send(w2, broadcast_group,
                    [type |-> "chat_message",
                     message |-> [id |-> msg.id, content |-> msg.content,
                                  sender |-> [id |-> conn.user,
                                              username |-> username[conn.user]],
                                  timestamp |-> msg.timestamp,
                                  room_type |-> data.room_type,
                                  room_id |-> r.room,
                                  attachments |-> <<>>]]),
             conn |-> [conn EXCEPT !.room_group_name = broadcast_group]]

\* what a send_message leaves behind
send_message_done(c, data, r) ==
    LET s == send_message_apply(c, conns[c], data, r)
    IN /\ IF r.ok /\ data.message # Null THEN Len(messages) < MaxMessages
          ELSE Len(inbox[c]) < MaxMessages
       /\ Cardinality(DOMAIN r.w.rooms) <= MaxRooms
       /\ Commit(s.w)
       /\ conns' = [conns EXCEPT ![c] = s.conn]
       /\ last' = RoomResponse("send_message", conns[c].user, data.room_id,
                       data.room_type,
                       IF r.ok /\ r.w.up /\ data.message # Null THEN "ok"
                       ELSE "error",
                       r.room, r.created)

\* a send_message frame on connection c
send_message(c, data) ==
    /\ send_message_done(c, data,
            save_message_room(Cur, conns[c].user, data.room_type,
                              data.room_id))
    /\ UNCHANGED reqs

\* a send_message frame on connection c while the channel layer is down
send_message_unreachable(c, data) ==
    /\ send_message_done(c, data,
            save_message_room(Unreachable(Cur), conns[c].user,
                              data.room_type, data.room_id))
    /\ UNCHANGED reqs

----------------------------------------------------------------------------
(* The same handlers as two database steps each: the lookup, and the       *)
(* INSERT that follows a lookup which found nothing. Requests of other     *)
(* connections and workers run in between.                                 *)

\* the HTTP workers
Workers == {"h1", "h2"}

\* a connection or a worker is inside a handler
Busy(conn) == \E r \in reqs : r.conn = conn

Request(op, conn, u, room_type, room_id, message) ==
    [op |-> op, conn |-> conn, user |-> u, room_type |-> room_type,
     room_id |-> room_id, message |-> message]

\* the handler stops between its lookup and its INSERT
Park(r) ==
    /\ reqs' = reqs \cup {r}
    /\ UNCHANGED <<is_online, tasks, activity, assignments, rooms, messages, notifRows,
                   pushes, groups, inbox, conns, clock, last>>

\* ChatRoomViewSet.create to the end of its lookup
ChatRoomViewSet_create_filter(h, u, room_type, id) ==
    /\ ~Busy(h)
    /\ IF ChatRoomViewSet_create_result(Cur, u, room_type, id) = "201"
       THEN Park(Request("create_room", h, u, room_type, id, Null))
       ELSE ChatRoomViewSet_create(u, room_type, id)

\* ChatRoomViewSet.create from its INSERT
ChatRoomViewSet_create_create(r) ==
    LET done == ChatRoomViewSet_create_insert(Cur, r.user, r.room_type,
                                              r.room_id)
    IN /\ r.op = "create_room"
       /\ Cardinality(DOMAIN done.w.rooms) <= MaxRooms
       /\ Commit(done.w)
       /\ last' = RoomResponse("create_room", r.user, r.room_id, r.room_type,
                               done.result, done.room, done.created)
       /\ reqs' = reqs \ {r}
       /\ UNCHANGED conns

\* join_room of a direct room to the end of rooms.exists()
join_room_filter(c, room_id) ==
    /\ ~Busy(c)
    /\ IF room_id \in Users /\ DirectRooms(Cur, conns[c].user, room_id) = {}
       THEN Park(Request("join_room", c, conns[c].user, "direct", room_id,
                         Null))
       ELSE join_room(c, "direct", room_id)

\* join_room of a direct room from self.create(room_type='direct')
join_room_create(r) ==
    /\ r.op = "join_room"
    /\ join_room_done(r.conn, r.room_type, r.room_id,
            join_room_group(
                get_or_create_direct_create(Cur, r.user, r.room_id),
                r.conn, r.room_type))
    /\ reqs' = reqs \ {r}

\* send_message to the end of the lookups of save_message
send_message_filter(c, data) ==
    /\ ~Busy(c)
    /\ IF save_message_inserts(Cur, conns[c].user, data.room_type,
                               data.room_id)
       THEN Park(Request("send_message", c, conns[c].user, data.room_type,
                         data.room_id, data.message))
       ELSE send_message(c, data)

\* send_message from the INSERT of the room
send_message_create(r) ==
    /\ r.op = "send_message"
    /\ send_message_done(r.conn,
            [room_type |-> r.room_type, room_id |-> r.room_id,
             message |-> r.message],
            save_message_room_insert(Cur, r.user, r.room_type, r.room_id))
    /\ reqs' = reqs \ {r}

----------------------------------------------------------------------------
(* The assignment workflow (apps/tasks/views.py)                           *)

\* Task.title
title(t) == <<"task ", t>>

AssignmentsOf_any_user(w, t, user) ==
    {a \in DOMAIN w.assignments : w.assignments[a].task = t}

\* task.assignments.filter(user=user)
AssignmentsOf(w, t, user) ==
    {a \in DOMAIN w.assignments :
        w.assignments[a].task = t /\ w.assignments[a].user = user}

TaskAssignment_no_constraint(w, t, user) == FALSE

\* unique_together (task, user): a row of the pair makes the INSERT raise
\* IntegrityError
TaskAssignment_unique_together(w, t, user) == AssignmentsOf(w, t, user) # {}

\* the lists of user ids a proposal names (4 is the id of no user)
UserIdLists == {<<>>, <<3>>, <<3, 2>>, <<4>>}

ProposeResponse(u, t, user_ids, result, created) ==
    [op |-> "propose_assignment", user |-> u, task |-> t, data |-> user_ids,
     result |-> result, old |-> Null, created |-> created]

\* propose_assignment up to its loop: get_object over the caller's queryset,
\* then the check of user_ids
propose_assignment_result(w, u, t, user_ids) ==
    CASE t \notin get_queryset(w, u) -> "404"
      [] user_ids = <<>>             -> "400"
      [] OTHER                       -> "200"

\* get_or_create from its INSERT: the pending row and the push to the
\* proposed user, or nothing when the pair has a row by now (the
\* IntegrityError makes get_or_create fetch it, created_flag is False)
propose_assignment_insert(w, u, t, uid) ==
    IF TaskAssignment_unique_together(w, t, uid)
    THEN [w |-> w, created |-> <<>>]
    ELSE LET id == NextId(w.assignments)
             w1 == [w EXCEPT !.assignments =
                        [a \in DOMAIN @ \cup {id} |->
                            IF a = id
                            THEN [task |-> t, user |-> uid,
                                  assigned_by |-> u, status |-> "pending",
                                  reason |-> Null, responded_at |-> None]
                            ELSE @[a]]]
         IN [w |-> send_notification_ws(w1, uid,
                        [type |-> "assignment_proposed", task_id |-> t,
                         assignment_id |-> id]),
             created |-> <<id>>]

\* the handler's position moves on
Step(r, next) ==
    reqs' = (reqs \ {r}) \cup {next}

\* POST /api/tasks/{t}/propose_assignment/ on worker h, up to the loop
propose_assignment(h, u, t, user_ids) ==
    /\ ~Busy(h)
    /\ IF propose_assignment_result(Cur, u, t, user_ids) = "200"
       THEN /\ Len(activity) + Cardinality(reqs) < MaxLog
            /\ Park([op |-> "propose_assignment", conn |-> h, user |-> u,
                     task |-> t, user_ids |-> user_ids, todo |-> user_ids,
                     created |-> <<>>, insert |-> FALSE])
       ELSE /\ last' = ProposeResponse(u, t, user_ids,
                    propose_assignment_result(Cur, u, t, user_ids), <<>>)
            /\ UNCHANGED <<is_online, tasks, activity, assignments, rooms, messages,
                           notifRows, pushes, groups, inbox, conns, reqs,
                           clock>>

\* the loop of propose_assignment at User.objects.get and the SELECT of
\* get_or_create: an unknown user and a pair that has a row are passed over
propose_assignment_get(r) ==
    /\ r.op = "propose_assignment" /\ ~r.insert /\ r.todo # <<>>
    /\ IF \/ Head(r.todo) \notin Users
          \/ AssignmentsOf(Cur, r.task, Head(r.todo)) # {}
       THEN Step(r, [r EXCEPT !.todo = Tail(@)])
       ELSE Step(r, [r EXCEPT !.insert = TRUE])
    /\ UNCHANGED <<is_online, tasks, activity, assignments, rooms, messages, notifRows,
                   pushes, groups, inbox, conns, clock, last>>

\* the loop of propose_assignment at the INSERT of get_or_create
propose_assignment_create(r) ==
    LET done == propose_assignment_insert(Cur, r.user, r.task, Head(r.todo))
    IN /\ r.op = "propose_assignment" /\ r.insert
       /\ Cardinality(DOMAIN done.w.assignments) <= MaxAssignments
       /\ Commit(done.w)
       /\ Step(r, [r EXCEPT !.todo = Tail(@), !.insert = FALSE,
                            !.created = @ \o done.created])
       /\ UNCHANGED <<conns, last>>

\* propose_assignment after the loop: the log entry and the response
propose_assignment_log(r) ==
    /\ r.op = "propose_assignment" /\ ~r.insert /\ r.todo = <<>>
    /\ Commit(create_activity_log(Cur, r.task, r.user, "assignment_proposed",
                                  [user_ids |-> r.user_ids]))
    /\ last' = ProposeResponse(r.user, r.task, r.user_ids, "200", r.created)
    /\ reqs' = reqs \ {r}
    /\ UNCHANGED conns

\* the payloads of respond_assignment: an assignment id (None when the key
\* is missing), an action and an optional reason
RespondPayloads ==
    [assignment_id : {1, 2}, action : {"accept", "reject"},
     reason : {Absent, "r1"}]
    \cup {[assignment_id |-> None, action |-> "accept", reason |-> Absent],
          [assignment_id |-> 1, action |-> "later", reason |-> Absent]}

respond_assignment_result_not_terminal(w, u, t, data) ==
    CASE t \notin DOMAIN w.tasks                           -> "404"
      [] \/ data.assignment_id = None
         \/ data.action \notin {"accept", "reject"}        -> "400"
      [] data.assignment_id \notin AssignmentsOf(w, t, u)  -> "404 assignment"
      [] OTHER                                             -> "200"

\* the response of respond_assignment, in the order of the handler's checks
respond_assignment_result(w, u, t, data) ==
    CASE t \notin DOMAIN w.tasks                           -> "404"
      [] \/ data.assignment_id = None
         \/ data.action \notin {"accept", "reject"}        -> "400"
      [] data.assignment_id \notin AssignmentsOf(w, t, u)  -> "404 assignment"
      [] w.assignments[data.assignment_id].status # "pending"
                                                           -> "400 responded"
      [] OTHER                                             -> "200"

assignment_save_unstamped(w, a, status, reason) ==
    [w EXCEPT !.assignments[a].status = status,
              !.assignments[a].reason = IF Truthy(reason) THEN reason ELSE ""]

\* assignment.status, responded_at and reason (reason or ''), then save()
assignment_save(w, a, status, reason) ==
    [w EXCEPT !.assignments[a].status = status,
              !.assignments[a].responded_at = w.clock,
              !.assignments[a].reason = IF Truthy(reason) THEN reason ELSE ""]

\* the user the response is pushed to: the proposer, or the responder when
\* the proposer's row is gone
notified(w, u, a) ==
    IF w.assignments[a].assigned_by # None THEN w.assignments[a].assigned_by
    ELSE u

\* respond_assignment, action accept
respond_assignment_accept(w, u, t, a, reason) ==
    LET w1 == assignment_save(w, a, "accepted", reason)
        w2 == [w1 EXCEPT !.tasks[t].assigned_to = @ \cup {u}]
        w3 == create_activity_log(w2, t, u, "assignment_accepted",
                                  [assignment_id |-> a])
        w4 == send_notification_ws(w3, notified(w3, u, a),
                  [type |-> "assignment_accepted", task_id |-> t,
                   assignment_id |-> a])
    IN create_system_message(w4, t, u,
           <<username[u], " accepted assignment for task: ", title(t)>>)

respond_assignment_reject_assigns(w, u, t, a, reason) ==
    LET w1 == assignment_save(w, a, "rejected", reason)
        w2 == [w1 EXCEPT !.tasks[t].assigned_to = @ \cup {u}]
        w3 == create_activity_log(w2, t, u, "assignment_rejected",
                                  [assignment_id |-> a, reason |-> reason])
        w4 == send_notification_ws(w3, notified(w3, u, a),
                  [type |-> "assignment_rejected", task_id |-> t,
                   assignment_id |-> a])
    IN create_system_message(w4, t, u,
           <<username[u], " rejected assignment for task: ", title(t)>>)

\* respond_assignment, action reject
respond_assignment_reject(w, u, t, a, reason) ==
    LET w1 == assignment_save(w, a, "rejected", reason)
        w3 == create_activity_log(w1, t, u, "assignment_rejected",
                                  [assignment_id |-> a, reason |-> reason])
        w4 == send_notification_ws(w3, notified(w3, u, a),
                  [type |-> "assignment_rejected", task_id |-> t,
                   assignment_id |-> a])
    IN create_system_message(w4, t, u,
           <<username[u], " rejected assignment for task: ", title(t)>>)

\* POST /api/tasks/{t}/respond_assignment/
respond_assignment(u, t, data) ==
    LET result == respond_assignment_result(Cur, u, t, data)
        old    == IF data.assignment_id \in DOMAIN assignments
                  THEN assignments[data.assignment_id] ELSE Null
    IN /\ result = "200" => Len(activity) + Cardinality(reqs) < MaxAssignLog
       /\ Commit(CASE result = "200" /\ data.action = "accept" ->
                        respond_assignment_accept(Cur, u, t,
                            data.assignment_id, data.reason)
                   [] result = "200" /\ data.action = "reject" ->
                        respond_assignment_reject(Cur, u, t,
                            data.assignment_id, data.reason)
                   [] OTHER -> Cur)
       /\ last' = Response("respond_assignment", u, t, data, result, old)
       /\ UNCHANGED <<conns, reqs>>

----------------------------------------------------------------------------
(* The task lifecycle: one task, update_status, the task's room and a chat *)
(* connection of the clerk that joins it.                                  *)

\* the ids a client may name: the task and an id of no row
TaskIds == {1, 2}

NewTask(status, created_by, assigned_to) ==
    [status |-> status, completed_at |-> None, created_by |-> created_by,
     assigned_to |-> assigned_to, priority |-> "normal"]

NoResponse == Response("none", None, None, Null, Null, Null)

\* the room of task 1 as ChatRoomViewSet.create leaves it
RoomOfTask1(w) ==
    ChatRoomViewSet_create_insert(w, 1, "task", 1).w.rooms

\* a task the atl created (POST /api/tasks/ takes any status), assigned to
\* the clerk or to nobody yet, whose room exists already or not; the clerk
\* has a chat connection open
InitTask ==
    /\ \E s \in Status, a \in {{}, {3}} :
            tasks = [t \in {1} |-> NewTask(s, 2, a)]
    /\ activity = <<>>
    /\ assignments = <<>>
    /\ \E made \in BOOLEAN :
          /\ rooms = IF made
                     THEN RoomOfTask1([tasks |-> tasks, rooms |-> <<>>,
                                       clock |-> 1])
                     ELSE <<>>
          /\ clock = IF made THEN 3 ELSE 1
    /\ messages = <<>>
    /\ notifRows = <<>>
    /\ pushes = <<>>
    /\ groups = {}
    /\ inbox = [c \in {"c1"} |-> <<>>]
    /\ conns = [c \in {"c1"} |-> [user |-> 3, room_group_name |-> NoGroup]]
    /\ is_online = [u \in Users |-> \E c \in DOMAIN conns : conns[c].user = u]
    /\ reqs = {}
    /\ last = NoResponse

Init == InitTask

Next ==
    \/ \E u \in {1, 3}, data \in StatusPayloads : update_status(u, 1, data)
    \/ \E u \in {1, 3} :
            update_status(u, 2, [status |-> "in_progress", reason |-> Absent])
    \/ join_room("c1", "task", 1)

Spec == Init /\ [][Next]_vars

\* the same with the other handlers that write Task.status
NextStatus ==
    \/ \E u \in {1, 3}, s \in Status, r \in {Absent, "r1"} :
            update_status(u, 1, [status |-> s, reason |-> r])
    \/ \E u \in {1, 3}, data \in Patches : partial_update(u, 1, data)
    \/ \E u \in {1, 3}, ids \in {{}, {1}, {1, 2}}, data \in Patches :
            bulk_update(u, ids, data)

SpecStatus == InitTask /\ [][NextStatus]_vars

----------------------------------------------------------------------------
(* The chat rooms: a chat connection of the atl and one of the clerk, and  *)
(* the HTTP room endpoint.                                                 *)

\* the join_room frames of the two connections: the direct room with the
\* other user, with oneself, with a user id no user has (4), and a task room
JoinFrames ==
    {<<"c1", "direct", 3>>, <<"c1", "direct", 4>>,
     <<"c2", "direct", 2>>, <<"c2", "direct", 3>>, <<"c2", "task", 1>>}

\* the send_message frames: into the direct room with the other user, into
\* the room of task 1, into the room of no task
SendFrames ==
    {<<"c1", [room_type |-> "direct", room_id |-> 3, message |-> "hi"]>>,
     <<"c2", [room_type |-> "direct", room_id |-> 2, message |-> "hi"]>>,
     <<"c2", [room_type |-> "task", room_id |-> 1, message |-> "hi"]>>,
     <<"c2", [room_type |-> "task", room_id |-> 4, message |-> "hi"]>>}

\* the rooms the atl and the clerk POST
CreatePayloads ==
    {<<3, "direct", 2>>, <<2, "direct", 3>>, <<2, "direct", 4>>,
     <<2, "task", 1>>, <<3, "task", 2>>}

\* task 1, created by the atl and assigned to the clerk; no room yet
InitRooms ==
    /\ tasks = [t \in {1} |-> NewTask("todo", 2, {3})]
    /\ activity = <<>>
    /\ assignments = <<>>
    /\ rooms = <<>>
    /\ clock = 1
    /\ messages = <<>>
    /\ notifRows = <<>>
    /\ pushes = <<>>
    /\ groups = {}
    /\ inbox = [c \in Channels |-> <<>>]
    /\ conns = [c \in Channels |->
                    [user |-> IF c = "c1" THEN 2 ELSE 3,
                     room_group_name |-> NoGroup]]
    /\ is_online = [u \in Users |-> \E c \in DOMAIN conns : conns[c].user = u]
    /\ reqs = {}
    /\ last = NoResponse

\* every handler runs from its first to its last statement
NextRooms ==
    \/ \E f \in JoinFrames : join_room(f[1], f[2], f[3])
    \/ \E p \in CreatePayloads : ChatRoomViewSet_create(p[1], p[2], p[3])
    \/ \E f \in SendFrames : send_message(f[1], f[2])

SpecRooms == InitRooms /\ [][NextRooms]_vars

\* the handlers interleave between their lookup and their INSERT
NextRoomsRace ==
    \/ \E f \in JoinFrames : f[2] = "direct" /\ join_room_filter(f[1], f[3])
    \/ \E r \in reqs : join_room_create(r)
    \/ \E p \in CreatePayloads :
            ChatRoomViewSet_create_filter("h1", p[1], p[2], p[3])
    \/ \E r \in reqs : ChatRoomViewSet_create_create(r)
    \/ \E f \in SendFrames : send_message_filter(f[1], f[2])
    \/ \E r \in reqs : send_message_create(r)

SpecRoomsRace == InitRooms /\ [][NextRoomsRace]_vars

\* the status updates sent while the layer is watched: a start, a
\* cancellation with its reason, one without
LayerPayloads ==
    {[status |-> "in_progress", reason |-> Absent],
     [status |-> "cancelled", reason |-> "r1"],
     [status |-> "cancelled", reason |-> Absent]}

\* frames and status updates, each with the channel layer up or down
NextLayer ==
    \/ \E f \in SendFrames : send_message(f[1], f[2])
    \/ \E f \in SendFrames : send_message_unreachable(f[1], f[2])
    \/ \E u \in {2, 3}, data \in LayerPayloads : update_status(u, 1, data)
    \/ \E u \in {2, 3}, data \in LayerPayloads :
            update_status_unreachable(u, 1, data)

SpecLayer == InitRooms /\ [][NextLayer]_vars

----------------------------------------------------------------------------
(* The assignment workflow on task 1: proposals on two workers, responses  *)
(* of the proposed users.                                                  *)

\* task 1, created by the atl and assigned to nobody; its room exists or not
InitAssign ==
    /\ tasks = [t \in {1} |-> NewTask("todo", 2, {})]
    /\ activity = <<>>
    /\ assignments = <<>>
    /\ \E made \in BOOLEAN :
          /\ rooms = IF made
                     THEN RoomOfTask1([tasks |-> tasks, rooms |-> <<>>,
                                       clock |-> 1])
                     ELSE <<>>
          /\ clock = IF made THEN 3 ELSE 1
    /\ messages = <<>>
    /\ notifRows = <<>>
    /\ pushes = <<>>
    /\ groups = {}
    /\ inbox = [c \in {"c1"} |-> <<>>]
    /\ conns = [c \in {"c1"} |-> [user |-> 3, room_group_name |-> NoGroup]]
    /\ is_online = [u \in Users |-> \E c \in DOMAIN conns : conns[c].user = u]
    /\ reqs = {}
    /\ last = NoResponse

NextAssign ==
    \/ \E h \in Workers, u \in {1, 2}, user_ids \in UserIdLists :
            propose_assignment(h, u, 1, user_ids)
    \/ \E r \in reqs : propose_assignment_get(r)
    \/ \E r \in reqs : propose_assignment_create(r)
    \/ \E r \in reqs : propose_assignment_log(r)
    \/ \E u \in Users, data \in RespondPayloads :
            respond_assignment(u, 1, data)
    \/ respond_assignment(3, 2, [assignment_id |-> 1, action |-> "accept",
                                 reason |-> Absent])

SpecAssign == InitAssign /\ [][NextAssign]_vars

----------------------------------------------------------------------------
(* Bulk operations inside their transaction (apps/tasks/views.py).         *)
(* Each handler runs its queries in transaction.atomic() on PostgreSQL:    *)
(* SELECT ... FOR UPDATE locks the matching rows one by one in the order   *)
(* of the result, the writes of the block are private to the transaction  *)
(* until it commits, and an exception leaving the block rolls them back.   *)
(* A request in flight is a record of reqs: the rows still to lock, the    *)
(* rows locked, the tasks handled, and the uncommitted writes.             *)

\* rows the activity log may hold once the bulk call that begins is through
MaxBulkLog == 2

Range(s) == {s[i] : i \in DOMAIN s}

\* the id lists a client sends: empty, both tasks, a task and an id that
\* does not exist
IdLists == {<<>>, <<2, 1>>, <<2, 3>>}

\* the patches of bulk_update: a valid one and one that fails validation
BulkPatches == {[priority |-> "high"], [status |-> "nope"]}

\* the user_ids of bulk_assign: none, the clerk, a user that does not exist
BulkUserIds == {<<>>, <<3>>, <<4>>}

BulkResponse(op, u, ids, data, result, old, reported) ==
    [op |-> op, user |-> u, task |-> ids, data |-> data, result |-> result,
     old |-> old, reported |-> reported]

\* the writes of a transaction that has written nothing
NoWrites == [tasks |-> <<>>, activity |-> <<>>, deleted |-> {}]

\* what the transaction reads: the committed rows under its own writes;
\* a deleted task takes the rows that reference it with on_delete=CASCADE
Uncommitted(w, tx) ==
    LET gone == {r \in DOMAIN w.rooms : w.rooms[r].task \in tx.deleted}
    IN [w EXCEPT
          !.tasks = [t \in DOMAIN w.tasks \ tx.deleted |->
                        IF t \in DOMAIN tx.tasks THEN tx.tasks[t]
                        ELSE w.tasks[t]],
          !.activity = SelectSeq(w.activity \o tx.activity,
                                 LAMBDA e : e.task \notin tx.deleted),
          !.assignments = SelectSeq(w.assignments,
                                    LAMBDA a : a.task \notin tx.deleted),
          !.rooms = [r \in DOMAIN w.rooms \ gone |-> w.rooms[r]],
          !.messages = SelectSeq(w.messages, LAMBDA m : m.room \notin gone)]

\* the rows another transaction holds locked
LockedByOthers(r) == UNION {q.locked : q \in reqs \ {r}}

LockOrder_as_supplied(w, ids) ==
    SelectSeq(ids, LAMBDA t : t \in DOMAIN w.tasks)

\* Task.objects.select_for_update().filter(id__in=ids): the matching rows in
\* the order of Task.Meta.ordering, whatever the order of ids
LockOrder(w, ids) == TasksIn(Range(ids) \cap DOMAIN w.tasks)

\* the handler enters transaction.atomic() and sends its locking SELECT
Begin(op, h, u, ids, data) ==
    /\ Len(activity) + Cardinality(Range(ids) \cap DOMAIN tasks) <= MaxBulkLog
    /\ Park([op |-> op, conn |-> h, user |-> u, ids |-> ids, data |-> data,
             targets |-> Range(ids) \cap DOMAIN tasks,
             todo |-> LockOrder(Cur, ids), locked |-> {}, done |-> <<>>,
             tx |-> NoWrites])

\* the handler answers before it opens a transaction
Refuse(op, u, ids, data, result) ==
    /\ last' = BulkResponse(op, u, ids, data, result, Null, <<>>)
    /\ UNCHANGED <<is_online, tasks, activity, assignments, rooms, messages, notifRows,
                   pushes, groups, inbox, conns, reqs, clock>>

bulk_update_checks_no_role(u, ids) ==
    CASE ids = <<>>                                -> "400 ids"
      [] OTHER                                     -> "200"

\* bulk_update up to transaction.atomic(): ids, then the caller's role
bulk_update_checks(u, ids) ==
    CASE ids = <<>>                                -> "400 ids"
      [] role[u] \notin {"supervisor", "atl"}      -> "403"
      [] OTHER                                     -> "200"

\* POST /api/tasks/bulk_update/ on worker h
bulk_update_request(h, u, ids, data) ==
    /\ ~Busy(h)
    /\ IF bulk_update_checks(u, ids) = "200"
       THEN Begin("bulk_update", h, u, ids, data)
       ELSE Refuse("bulk_update", u, ids, data, bulk_update_checks(u, ids))

\* User.objects.filter(id__in=user_ids)
UsersOf(user_ids) == Range(user_ids) \cap Users

\* bulk_assign up to its loop: ids and user_ids, the caller's role, the users
\* found; for an atl the locking SELECT carries DISTINCT and a join, which
\* PostgreSQL refuses with FOR UPDATE (NotSupportedError)
bulk_assign_checks(u, ids, user_ids) ==
    CASE ids = <<>> \/ user_ids = <<>>             -> "400 ids"
      [] role[u] \notin {"supervisor", "atl"}      -> "403"
      [] UsersOf(user_ids) = {}                    -> "400 users"
      [] role[u] = "atl"                           -> "500 NotSupportedError"
      [] OTHER                                     -> "200"

\* POST /api/tasks/bulk_assign/ on worker h
bulk_assign(h, u, ids, user_ids, replace) ==
    LET data == [user_ids |-> user_ids, replace |-> replace]
    IN /\ ~Busy(h)
       /\ IF bulk_assign_checks(u, ids, user_ids) = "200"
          THEN /\ Len(pushes) + Cardinality(Range(ids) \cap DOMAIN tasks)
                        * Cardinality(UsersOf(user_ids)) <= MaxBulkLog
               /\ Begin("bulk_assign", h, u, ids, data)
          ELSE Refuse("bulk_assign", u, ids, data,
                      bulk_assign_checks(u, ids, user_ids))

\* bulk_delete up to transaction.atomic(): ids, then the caller's role
bulk_delete_checks(u, ids) ==
    CASE ids = <<>>                                -> "400 ids"
      [] role[u] # "supervisor"                    -> "403"
      [] OTHER                                     -> "200"

\* POST /api/tasks/bulk_delete/ on worker h
bulk_delete(h, u, ids) ==
    /\ ~Busy(h)
    /\ IF bulk_delete_checks(u, ids) = "200"
       THEN Begin("bulk_delete", h, u, ids, <<>>)
       ELSE Refuse("bulk_delete", u, ids, <<>>, bulk_delete_checks(u, ids))

\* the locking SELECT reaches its next row: a row deleted meanwhile is
\* skipped, a row another transaction holds makes the statement wait
select_for_update(r) ==
    /\ r.op \in {"bulk_update", "bulk_assign", "bulk_delete"}
    /\ r.todo # <<>>
    /\ Head(r.todo) \notin LockedByOthers(r)
    /\ Step(r, [r EXCEPT !.todo = Tail(@),
                         !.locked = IF Head(r.todo) \in DOMAIN tasks
                                    THEN @ \cup {Head(r.todo)} ELSE @,
                         !.targets = @ \cap DOMAIN tasks])
    /\ UNCHANGED <<is_online, tasks, activity, assignments, rooms, messages, notifRows,
                   pushes, groups, inbox, conns, clock, last>>

\* the rows the handler loops over: for bulk_update by an atl the locked
\* rows it created or that have a clerk or atm assignee, else every locked row
Permitted(r) ==
    IF r.op = "bulk_update" THEN tasks_to_update(Cur, r.user, r.locked)
    ELSE r.locked

\* the part of the loop still to run
Rest(r) == SelectSeq(TasksIn(Permitted(r)), LAMBDA t : t \notin Range(r.done))

\* the end of the atomic block: locks released, the worker free again
Release(r, response) ==
    /\ reqs' = reqs \ {r}
    /\ last' = response
    /\ UNCHANGED conns

\* bulk_update: the patch fails TaskUpdateSerializer; the handler returns
\* 400 from inside the block, which commits nothing
bulk_update_invalid(r) ==
    /\ r.op = "bulk_update" /\ r.todo = <<>>
    /\ ~TaskUpdateSerializer_is_valid(r.data)
    /\ Commit(Cur)
    /\ Release(r, BulkResponse(r.op, r.user, r.ids, r.data, "400 invalid",
                               Null, <<>>))

\* bulk_update, one task: setattr per field, task.save(), the log row
bulk_update_each(v, u, t, data) ==
    create_activity_log([v EXCEPT !.tasks[t] = save_fields(@, data)],
        t, u, "bulk_updated", [fields |-> DOMAIN data])

\* task.assigned_to.set(users) when replace, else task.assigned_to.add of the users
assigned_to_set_or_add(v, t, users, replace) ==
    [v EXCEPT !.tasks[t].assigned_to = IF replace THEN users ELSE @ \cup users]

\* bulk_assign, one task: the assignees, the log row, a push per user
bulk_assign_each(v, u, t, data) ==
    LET users == UsersOf(data.user_ids)
        v1 == assigned_to_set_or_add(v, t, users, data.replace)
        v2 == create_activity_log(v1, t, u, "bulk_assigned",
                  [user_ids |-> UsersIn(users), replace |-> data.replace])
        note(x, a) ==
            send_notification_ws(x, a, [type |-> "task_assigned",
                                        task_id |-> t])
    IN FoldSeq(note, v2, UsersIn(users))

\* bulk_delete, one task: the log row written before the deletion
bulk_delete_each(v, u, t) ==
    create_activity_log(v, t, u, "bulk_deleted", <<>>)

bulk_each_autocommit(r) ==
    LET t == Head(Rest(r))
        v == CASE r.op = "bulk_update" ->
                    bulk_update_each(Cur, r.user, t, r.data)
               [] r.op = "bulk_assign" ->
                    bulk_assign_each(Cur, r.user, t, r.data)
               [] OTHER -> bulk_delete_each(Cur, r.user, t)
    IN /\ r.op \in {"bulk_update", "bulk_assign", "bulk_delete"}
       /\ r.todo = <<>>
       /\ r.op = "bulk_update" => TaskUpdateSerializer_is_valid(r.data)
       /\ Rest(r) # <<>>
       /\ Step(r, [r EXCEPT !.done = Append(@, t)])
       /\ Commit(v)
       /\ UNCHANGED <<conns, last>>

\* one turn of the handler's loop: the rows are written inside the
\* transaction, the pushes leave through the channel layer at once
bulk_each(r) ==
    LET t == Head(Rest(r))
        w == Uncommitted(Cur, r.tx)
        v == CASE r.op = "bulk_update" ->
                    bulk_update_each(w, r.user, t, r.data)
               [] r.op = "bulk_assign" ->
                    bulk_assign_each(w, r.user, t, r.data)
               [] OTHER -> bulk_delete_each(w, r.user, t)
    IN /\ r.op \in {"bulk_update", "bulk_assign", "bulk_delete"}
       /\ r.todo = <<>>
       /\ r.op = "bulk_update" => TaskUpdateSerializer_is_valid(r.data)
       /\ Rest(r) # <<>>
       /\ Step(r, [r EXCEPT
              !.done = Append(@, t),
              !.tx = [tasks |-> [x \in r.locked |-> v.tasks[x]],
                      activity |-> SubSeq(v.activity, Len(activity) + 1,
                                          Len(v.activity)),
                      deleted |-> {}]])
       /\ pushes' = v.pushes
       /\ UNCHANGED <<is_online, tasks, activity, assignments, rooms, messages,
                      notifRows, groups, inbox, conns, clock, last>>

\* "Assigned: {names}" of bulk_assign
assigned_content(users) == <<"Assigned", UsersIn(users)>>

\* what the handler does after its loop: bulk_assign writes a system
\* message per task, bulk_delete runs qs.delete()
bulk_finish(r) ==
    LET w == Uncommitted(Cur, r.tx)
        say(v, t) ==
            create_system_message(v, t, r.user,
                assigned_content(UsersOf(r.data.user_ids)))
    IN CASE r.op = "bulk_assign" -> FoldSeq(say, w, r.done)
         [] r.op = "bulk_delete" ->
                Uncommitted(Cur, [r.tx EXCEPT !.deleted = r.locked])
         [] OTHER -> w

\* the block ends without an exception: COMMIT, and the response
bulk_commit(r) ==
    /\ r.op \in {"bulk_update", "bulk_assign", "bulk_delete"}
    /\ r.todo = <<>>
    /\ r.op = "bulk_update" => TaskUpdateSerializer_is_valid(r.data)
    /\ Rest(r) = <<>>
    /\ Commit(bulk_finish(r))
    /\ Release(r, BulkResponse(r.op, r.user, r.ids, r.data, "200", r.tx,
                               r.done))

\* an exception leaves the block after the rows were locked: ROLLBACK, and
\* the request fails
bulk_rollback(r) ==
    /\ r.op \in {"bulk_update", "bulk_assign", "bulk_delete"}
    /\ r.todo = <<>>
    /\ Commit(Cur)
    /\ Release(r, BulkResponse(r.op, r.user, r.ids, r.data, "500", r.tx,
                               r.done))

\* two tasks: task 1 of the supervisor, assigned to the supervisor or to the
\* clerk, task 2 of the atl, assigned to nobody; task 1 has its room or not
InitBulk ==
    /\ \E a \in {{1}, {3}} :
          tasks = [t \in TaskIds |->
                      IF t = 1 THEN NewTask("todo", 1, a)
                      ELSE NewTask("todo", 2, {})]
    /\ activity = <<>>
    /\ assignments = <<>>
    /\ \E made \in BOOLEAN :
          /\ rooms = IF made
                     THEN RoomOfTask1([tasks |-> tasks, rooms |-> <<>>,
                                       clock |-> 1])
                     ELSE <<>>
          /\ clock = IF made THEN 3 ELSE 1
    /\ messages = <<>>
    /\ notifRows = <<>>
    /\ pushes = <<>>
    /\ groups = {}
    /\ inbox = [c \in {"c1"} |-> <<>>]
    /\ conns = [c \in {"c1"} |-> [user |-> 3, room_group_name |-> NoGroup]]
    /\ is_online = [u \in Users |-> \E c \in DOMAIN conns : conns[c].user = u]
    /\ reqs = {}
    /\ last = NoResponse

\* one worker serves the bulk calls, one after the other
NextBulk ==
    \/ \E u \in Users, ids \in IdLists, data \in BulkPatches :
            bulk_update_request("h1", u, ids, data)
    \/ \E u \in Users, ids \in IdLists, user_ids \in BulkUserIds,
          replace \in BOOLEAN :
            bulk_assign("h1", u, ids, user_ids, replace)
    \/ \E u \in Users, ids \in IdLists : bulk_delete("h1", u, ids)
    \/ \E r \in reqs : select_for_update(r)
    \/ \E r \in reqs : bulk_update_invalid(r)
    \/ \E r \in reqs : bulk_each(r)
    \/ \E r \in reqs : bulk_commit(r)
    \/ \E r \in reqs : bulk_rollback(r)

SpecBulk == InitBulk /\ [][NextBulk]_vars

\* the id lists of two calls that overlap, in either order
OverlappingIds == {<<1, 2>>, <<2, 1>>}

\* the two tasks, task 1 assigned to the supervisor and without a room
InitLocks == InitBulk /\ tasks[1].assigned_to = {1} /\ rooms = <<>>

\* a call goes to the first worker that is free
Free(h) == ~Busy(h) /\ (h = "h2" => Busy("h1"))

\* two workers serve bulk calls of the supervisor over both tasks at the
\* same time
NextLocks ==
    \/ \E h \in Workers, ids \in OverlappingIds :
            Free(h) /\ bulk_update_request(h, 1, ids, [priority |-> "high"])
    \/ \E h \in Workers, ids \in OverlappingIds :
            Free(h) /\ bulk_assign(h, 1, ids, <<3>>, TRUE)
    \/ \E h \in Workers, ids \in OverlappingIds :
            Free(h) /\ bulk_delete(h, 1, ids)
    \/ \E r \in reqs : select_for_update(r)
    \/ \E r \in reqs : bulk_each(r)
    \/ \E r \in reqs : bulk_commit(r)
    \/ \E r \in reqs : bulk_rollback(r)

\* worker h runs the next statement of its handler
Running(h) ==
    \E r \in reqs :
        /\ r.conn = h
        /\ select_for_update(r) \/ bulk_each(r) \/ bulk_commit(r)

\* a worker inside a handler keeps running, and a statement that waits for
\* a row lock is served when the lock is released (PostgreSQL queues the
\* waiters of a row)
SpecLocks ==
    InitLocks /\ [][NextLocks]_vars /\ \A h \in Workers : SF_vars(Running(h))

----------------------------------------------------------------------------
(* The WebSocket handshake: the middlewares of task_manager/asgi.py and    *)
(* connect of the two consumers (apps/chat/consumers.py).                  *)

\* a string offered where a token is expected: its text (for a JWT, "jwt"),
\* the number of its dots, and for a JWT the user_id claim, whether it is
\* signed with SECRET_KEY, and whether its exp has passed
Token(text, dots, user_id, signed, expired) ==
    [text |-> text, dots |-> dots, user_id |-> user_id, signed |-> signed,
     expired |-> expired]

\* the source holds nothing: no sub-protocol offered, no access cookie, no
\* token parameter
NoToken == Token(Absent, 0, None, FALSE, FALSE)

\* a string that is not a JWT
Literal(text, dots) == Token(text, dots, None, FALSE, FALSE)

\* an access token of simplejwt (HS256)
Jwt(user_id, signed, expired) == Token("jwt", 2, user_id, signed, expired)

\* what the clients offer: the word a script sends for a missing token, a
\* token with two segments, tokens of the clerk that are expired or signed
\* with another key, a token of a deleted user, tokens of the atl and the
\* clerk
Tokens ==
    {Literal("NULL", 0), Literal("a.b", 1),
     Jwt(3, TRUE, TRUE), Jwt(3, FALSE, FALSE), Jwt(4, TRUE, FALSE),
     Jwt(2, TRUE, FALSE), Jwt(3, TRUE, FALSE)}

Sources == {"subprotocol", "cookie", "query"}

\* the tokens of handshakes that fill two sources
PairTokens ==
    {Literal("NULL", 0), Jwt(3, TRUE, TRUE), Jwt(2, TRUE, FALSE),
     Jwt(3, TRUE, FALSE)}

\* the handshakes: every source empty, one source holding a token, or two
\* sources holding one each
Handshakes ==
    {h \in [Sources -> Tokens \cup {NoToken}] :
        Cardinality({s \in Sources : h[s] # NoToken}) <= 1}
    \cup {h \in [Sources -> PairTokens \cup {NoToken}] :
            Cardinality({s \in Sources : h[s] # NoToken}) = 2}

\* str.strip().lower() of the offered strings
lower(text) ==
    CASE text \in {"NULL", "Null", "null"} -> "null"
      [] text \in {"NONE", "None", "none"} -> "none"
      [] OTHER -> text

\* _is_valid_token: a non-empty string, not "none" or "null", with two dots
_is_valid_token(token) ==
    /\ token.text \notin {Absent, ""}
    /\ lower(token.text) \notin {"none", "null", ""}
    /\ token.dots = 2

\* CookieWebSocketAuthMiddleware.__call__: scope['auth_token'], the first
\* of subprotocols[0], the access cookie and the token parameter that
\* _is_valid_token lets through; NoToken when the key is not set
CookieWebSocketAuthMiddleware(h) ==
    CASE _is_valid_token(h["subprotocol"]) -> h["subprotocol"]
      [] _is_valid_token(h["cookie"])      -> h["cookie"]
      [] _is_valid_token(h["query"])       -> h["query"]
      [] OTHER                             -> NoToken

jwt_decode_unverified(token) ==
    IF token.text # "jwt"
    THEN [ok |-> FALSE, error |-> "InvalidTokenError", user_id |-> None]
    ELSE [ok |-> TRUE, error |-> Absent, user_id |-> token.user_id]

\* jwt.decode(token, SECRET_KEY, algorithms=['HS256']): the payload, or the
\* exception raised
jwt_decode(token) ==
    CASE token.text # "jwt" -> [ok |-> FALSE, error |-> "InvalidTokenError",
                                user_id |-> None]
      [] ~token.signed      -> [ok |-> FALSE, error |-> "InvalidTokenError",
                                user_id |-> None]
      [] token.expired      -> [ok |-> FALSE,
                                error |-> "ExpiredSignatureError",
                                user_id |-> None]
      [] OTHER              -> [ok |-> TRUE, error |-> Absent,
                                user_id |-> token.user_id]

\* TokenAuthWebSocketMiddleware.__call__: scope['user'], the user of a
\* token that JWTAuthentication validates, else AnonymousUser (None)
TokenAuthWebSocketMiddleware(auth_token) ==
    LET validated == jwt_decode(auth_token)
    IN IF auth_token # NoToken /\ validated.ok /\ validated.user_id \in Users
       THEN validated.user_id
       ELSE None

\* the scope the consumer is called with
Scope(h) ==
    LET auth_token == CookieWebSocketAuthMiddleware(h)
    IN [auth_token |-> auth_token,
        user |-> TokenAuthWebSocketMiddleware(auth_token),
        subprotocol |-> h["subprotocol"], cookie |-> h["cookie"],
        query |-> h["query"]]

\* query_string.split('token=')[-1] if 'token=' in query_string else ''
query_token(scope) ==
    IF scope.query = NoToken THEN Literal("", 0) ELSE scope.query

\* the try block of connect: jwt.decode, then User.objects.get; the user,
\* or None when an exception closed the connection
authenticate(scope) ==
    LET payload == jwt_decode(query_token(scope))
    IN IF payload.ok /\ payload.user_id \in Users THEN payload.user_id
       ELSE None

HandshakeResponse(consumer, c, h, result, user) ==
    [op |-> "connect", consumer |-> consumer, conn |-> c, handshake |-> h,
     scope |-> Scope(h), result |-> result, user |-> user]

\* a consumer instance after accept
Consumer(consumer, user, user_group_name) ==
    [consumer |-> consumer, user |-> user, room_group_name |-> NoGroup,
     user_group_name |-> user_group_name, open |-> TRUE]

\* the socket of channel c is accepted and served by instance conn
accept(c, conn) ==
    /\ conns' = [x \in DOMAIN conns \cup {c} |->
                    IF x = c THEN conn ELSE conns[x]]
    /\ inbox' = [x \in DOMAIN inbox \cup {c} |->
                    IF x = c THEN <<>> ELSE inbox[x]]

\* ChatConsumer.connect on a new channel c
ChatConsumer_connect(c, h) ==
    LET user == authenticate(Scope(h))
    IN /\ c \notin DOMAIN conns
       /\ IF user = None
          THEN /\ last' = HandshakeResponse("ChatConsumer", c, h, "closed",
                                            None)
               /\ UNCHANGED <<is_online, conns, inbox>>
          ELSE /\ is_online' = [is_online EXCEPT ![user] = TRUE]
               /\ accept(c, Consumer("ChatConsumer", user, NoGroup))
               /\ last' = HandshakeResponse("ChatConsumer", c, h, "accepted",
                                            user)
       /\ UNCHANGED <<tasks, activity, assignments, rooms, messages,
                      notifRows, pushes, groups, reqs, clock>>

\* NotificationConsumer.connect on a new channel c
NotificationConsumer_connect(c, h) ==
    LET user == authenticate(Scope(h))
        user_group_name == <<"notifications", user>>
    IN /\ c \notin DOMAIN conns
       /\ IF user = None
          THEN /\ last' = HandshakeResponse("NotificationConsumer", c, h,
                                            "closed", None)
               /\ UNCHANGED <<groups, conns, inbox>>
          ELSE /\ groups' = groups \cup {<<user_group_name, c>>}
               /\ accept(c, Consumer("NotificationConsumer", user,
                                     user_group_name))
               /\ last' = HandshakeResponse("NotificationConsumer", c, h,
                                            "accepted", user)
       /\ UNCHANGED <<tasks, activity, assignments, rooms, messages,
                      notifRows, is_online, pushes, reqs, clock>>

DisconnectResponse(c) ==
    [op |-> "disconnect", consumer |-> conns[c].consumer, conn |-> c,
     user |-> conns[c].user]

\* the client of an accepted socket goes away: ChatConsumer.disconnect puts
\* is_online back, NotificationConsumer.disconnect leaves the user's group
disconnect(c) ==
    /\ c \in DOMAIN conns
    /\ conns[c].open
    /\ conns' = [conns EXCEPT ![c].open = FALSE]
    /\ inbox' = [x \in DOMAIN inbox \ {c} |-> inbox[x]]
    /\ IF conns[c].consumer = "ChatConsumer"
       THEN /\ is_online' = [is_online EXCEPT ![conns[c].user] = FALSE]
            /\ UNCHANGED groups
       ELSE /\ groups' = groups \ {<<conns[c].user_group_name, c>>}
            /\ UNCHANGED is_online
    /\ last' = DisconnectResponse(c)
    /\ UNCHANGED <<tasks, activity, assignments, rooms, messages, notifRows,
                   pushes, reqs, clock>>

\* task 1, created by the atl and assigned to the clerk; nobody is connected
InitConnect ==
    /\ tasks = [t \in {1} |-> NewTask("todo", 2, {3})]
    /\ activity = <<>>
    /\ assignments = <<>>
    /\ rooms = <<>>
    /\ clock = 1
    /\ messages = <<>>
    /\ notifRows = <<>>
    /\ is_online = [u \in Users |-> FALSE]
    /\ pushes = <<>>
    /\ groups = {}
    /\ inbox = <<>>
    /\ conns = <<>>
    /\ reqs = {}
    /\ last = NoResponse

\* the frame a chat client sends: a message to the other of atl and clerk
HelloFrame(user) ==
    [room_type |-> "direct", room_id |-> IF user = 2 THEN 3 ELSE 2,
     message |-> "hi"]

\* handshakes on two channels, clients going away; the atl starts task 1,
\* which notifies the clerk, and the chat clients send a message
NextConnect ==
    \/ \E c \in Channels, h \in Handshakes : ChatConsumer_connect(c, h)
    \/ \E c \in Channels, h \in Handshakes : NotificationConsumer_connect(c, h)
    \/ \E c \in Channels : disconnect(c)
    \/ update_status(2, 1, [status |-> "in_progress", reason |-> Absent])
    \/ \E c \in DOMAIN inbox :
            /\ conns[c].consumer = "ChatConsumer"
            /\ send_message(c, HelloFrame(conns[c].user))

SpecConnect == InitConnect /\ [][NextConnect]_vars

----------------------------------------------------------------------------
(* The frames of the chat socket, one handler at a time per connection:    *)
(* join_room, leave_room, typing, and send_message in its two awaits, the  *)
(* persist (save_message) and the publish (the group calls).               *)

\* rows the message table may hold while the sockets are watched
MaxChat == 2
\* typing frames a connection may be sent before typing_indicator stops
MaxTyping == 1

\* ChatConsumer.leave_room: group_discard of room_group_name, which stays
leave_room_apply(w, c, conn) ==
    IF conn.room_group_name # NoGroup
    THEN [w EXCEPT !.groups = @ \ {<<conn.room_group_name, c>>}]
    ELSE w

\* a leave_room frame on connection c
leave_room(c) ==
    /\ Commit(leave_room_apply(Cur, c, conns[c]))
    /\ last' = RoomResponse("leave_room", conns[c].user, None, Null, "ok",
                            None, FALSE)
    /\ UNCHANGED <<conns, reqs>>

\* ChatConsumer.typing: the frame a consumer of the group sends to its client
typing(event) == [type |-> "typing", data |-> event]

\* ChatConsumer.typing_indicator: nothing without a room_group_name, else
\* group_send of a typing event to it
typing_indicator_apply(w, conn, data) ==
    IF conn.room_group_name = NoGroup THEN w
    ELSE [w EXCEPT !.inbox = [x \in DOMAIN @ |->
            IF x \in Members(w, conn.room_group_name)
            THEN Append(@[x], typing([type |-> "typing",
                                      user |-> [id |-> conn.user,
                                                username |-> username[conn.user]],
                                      is_typing |-> data.is_typing,
                                      room_id |-> data.room_id]))
            ELSE @[x]]]

\* a typing frame on connection c
typing_indicator(c, data) ==
    /\ \A x \in DOMAIN inbox :
            Cardinality({i \in DOMAIN inbox[x] : inbox[x][i].type = "typing"})
                < MaxTyping
    /\ Commit(typing_indicator_apply(Cur, conns[c], data))
    /\ last' = RoomResponse("typing", conns[c].user, data.room_id, Null, "ok",
                            None, FALSE)
    /\ UNCHANGED <<conns, reqs>>

\* send_message to the end of save_message: the room resolved and the
\* Message row stored, the handler suspended before the group calls; or the
\* error frame when save_message raised
send_message_save(c, data) ==
    LET r == save_message_room(Cur, conns[c].user, data.room_type,
                               data.room_id)
        w1 == Message_create(r.w, r.room, conns[c].user, data.message, FALSE)
    IN IF r.ok /\ data.message # Null
       THEN /\ Len(messages) < MaxChat
            /\ Cardinality(DOMAIN r.w.rooms) <= MaxRooms
            /\ Commit(w1)
            /\ reqs' = reqs \cup
                    {[op |-> "send_message", conn |-> c,
                      user |-> conns[c].user, room_type |-> data.room_type,
                      room_id |-> data.room_id, message |-> data.message,
                      room |-> r.room, created |-> r.created,
                      msg |-> Len(messages) + 1]}
            /\ UNCHANGED <<conns, last>>
       ELSE send_message(c, data)

\* send_message after save_message: the move of the connection into the
\* broadcast group and the group_send of the stored message
send_message_broadcast(w, c, conn, r) ==
    LET msg == w.messages[r.msg]
        broadcast_group == group_name(r.room_type, r.room)
        left == IF conn.room_group_name # NoGroup
                THEN {<<conn.room_group_name, c>>} ELSE {}
        w1 == IF conn.room_group_name # broadcast_group
              THEN [w EXCEPT !.groups =
                        (@ \ left) \cup {<<broadcast_group, c>>}]
              ELSE w
    IN [w |-> group_send(w1, broadcast_group,
                [type |-> "chat_message",
                 message |-> [id |-> msg.id, content |-> msg.content,
                              sender |-> [id |-> conn.user,
                                          username |-> username[conn.user]],
                              timestamp |-> msg.timestamp,
                              room_type |-> r.room_type,
                              room_id |-> r.room,
                              attachments |-> <<>>]]),
        conn |-> [conn EXCEPT !.room_group_name = broadcast_group]]

\* the handler of request r resumes and publishes
send_message_publish(r) ==
    LET s == send_message_broadcast(Cur, r.conn, conns[r.conn], r)
    IN /\ r.op = "send_message"
       /\ Commit(s.w)
       /\ conns' = [conns EXCEPT ![r.conn] = s.conn]
       /\ reqs' = reqs \ {r}
       /\ last' = RoomResponse("send_message", r.user, r.room_id, r.room_type,
                               "ok", r.room, r.created)

\* task 1, created by the atl and assigned to the clerk; the atl and the
\* clerk have a chat socket each
InitSocket ==
    /\ tasks = [t \in {1} |-> NewTask("todo", 2, {3})]
    /\ activity = <<>>
    /\ assignments = <<>>
    /\ rooms = <<>>
    /\ clock = 1
    /\ messages = <<>>
    /\ notifRows = <<>>
    /\ is_online = [u \in Users |-> u \in {2, 3}]
    /\ pushes = <<>>
    /\ groups = {}
    /\ inbox = [c \in Channels |-> <<>>]
    /\ conns = [c \in Channels |->
                    Consumer("ChatConsumer", IF c = "c1" THEN 2 ELSE 3,
                             NoGroup)]
    /\ reqs = {}
    /\ last = NoResponse

\* the connection has a client and its consumer is between two frames
Idle(c) == conns[c].open /\ ~Busy(c)

\* the typing frames
TypingFrames == {[is_typing |-> TRUE, room_id |-> 1]}

\* the join_room frames: the direct room of the atl and the clerk from
\* either side, and the room of task 1 by its task id
SocketJoins ==
    {<<"c1", "direct", 3>>, <<"c2", "direct", 2>>, <<"c2", "task", 1>>}

\* the send_message frames, into the same rooms
SocketSends ==
    {<<"c1", [room_type |-> "direct", room_id |-> 3, message |-> "hi"]>>,
     <<"c2", [room_type |-> "direct", room_id |-> 2, message |-> "hi"]>>,
     <<"c2", [room_type |-> "task", room_id |-> 1, message |-> "hi"]>>}

\* the frames of the two sockets, and the sockets' ends
NextSocket ==
    \/ \E f \in SocketJoins : Idle(f[1]) /\ join_room(f[1], f[2], f[3])
    \/ \E c \in Channels : Idle(c) /\ leave_room(c)
    \/ \E c \in Channels, data \in TypingFrames :
            Idle(c) /\ typing_indicator(c, data)
    \/ \E f \in SocketSends : Idle(f[1]) /\ send_message_save(f[1], f[2])
    \/ \E r \in reqs : send_message_publish(r)
    \/ \E c \in Channels : ~Busy(c) /\ disconnect(c)

SpecSocket == InitSocket /\ [][NextSocket]_vars

----------------------------------------------------------------------------
(* The send_message frames that fail: the room, task or user the frame     *)
(* names has no row, or the message is JSON null and the INSERT fails.     *)

\* the send_message frames of the two sockets: into the direct room and the
\* room of task 1, into the room of no task (4), of no user (4), into a group
\* room no row has, and with a null message into a room that resolves and
\* into one that does not
FailingSends ==
    {<<"c1", [room_type |-> "direct", room_id |-> 3, message |-> "hi"]>>,
     <<"c2", [room_type |-> "task", room_id |-> 1, message |-> "hi"]>>,
     <<"c2", [room_type |-> "task", room_id |-> 4, message |-> "hi"]>>,
     <<"c1", [room_type |-> "direct", room_id |-> 4, message |-> "hi"]>>,
     <<"c1", [room_type |-> "group", room_id |-> 1, message |-> "hi"]>>,
     <<"c1", [room_type |-> "direct", room_id |-> 3, message |-> Null]>>,
     <<"c2", [room_type |-> "task", room_id |-> 4, message |-> Null]>>}

\* the frames of the two sockets, each handled from its first to its last
\* statement
NextSend ==
    \/ \E f \in SocketJoins : Idle(f[1]) /\ join_room(f[1], f[2], f[3])
    \/ \E c \in Channels : Idle(c) /\ leave_room(c)
    \/ \E f \in FailingSends : Idle(f[1]) /\ send_message(f[1], f[2])

SpecSend == InitSocket /\ [][NextSend]_vars

----------------------------------------------------------------------------
(* The HTTP message endpoints (apps/chat/views.py): MessageViewSet is a    *)
(* ModelViewSet, so the router serves PUT, PATCH and DELETE of a message   *)
(* next to mark_read.                                                      *)

\* MessageViewSet.get_queryset: the ids of the messages in the rooms the
\* user is a participant of
MessageViewSet_get_queryset(w, u) ==
    {w.messages[i].id : i \in {j \in DOMAIN w.messages :
        u \in w.rooms[w.messages[j].room].participants}}

\* the position of the row with primary key pk
RowOf(w, pk) == CHOOSE i \in DOMAIN w.messages : w.messages[i].id = pk

\* MessageCreateSerializer (fields room and content) on an update: a PUT
\* needs a room and takes the default '' for a content it lacks, a PATCH
\* takes the fields it has; the room is any row of chat_room
MessageCreateSerializer_is_valid(w, data, partial) ==
    /\ "room" \notin DOMAIN data => partial
    /\ "room" \in DOMAIN data => data.room \in DOMAIN w.rooms

\* serializer.save() of an update: the validated fields onto the row
MessageCreateSerializer_update(w, pk, data, partial) ==
    LET m == w.messages[RowOf(w, pk)]
        content == IF "content" \in DOMAIN data THEN data.content
                   ELSE IF partial THEN m.content ELSE ""
        room == IF "room" \in DOMAIN data THEN data.room ELSE m.room
    IN [w EXCEPT !.messages[RowOf(w, pk)] =
            [m EXCEPT !.content = content, !.room = room]]

\* PUT (partial FALSE) and PATCH (partial TRUE) /api/chat/messages/<pk>/
MessageViewSet_update(u, pk, data, partial) ==
    LET found == pk \in MessageViewSet_get_queryset(Cur, u)
        valid == found /\ MessageCreateSerializer_is_valid(Cur, data, partial)
    IN /\ Commit(IF valid
                 THEN MessageCreateSerializer_update(Cur, pk, data, partial)
                 ELSE Cur)
       /\ last' = RoomResponse(IF partial THEN "message_partial_update"
                               ELSE "message_update", u, pk, Null,
                               IF ~found THEN "404"
                               ELSE IF ~valid THEN "400" ELSE "200",
                               None, FALSE)
       /\ UNCHANGED <<conns, reqs>>

\* DELETE /api/chat/messages/<pk>/
MessageViewSet_destroy(u, pk) ==
    LET found == pk \in MessageViewSet_get_queryset(Cur, u)
    IN /\ Commit(IF found
                 THEN [Cur EXCEPT !.messages =
                            SelectSeq(@, LAMBDA m : m.id # pk)]
                 ELSE Cur)
       /\ last' = RoomResponse("message_destroy", u, pk, Null,
                               IF found THEN "204" ELSE "404", None, FALSE)
       /\ UNCHANGED <<conns, reqs>>

\* POST /api/chat/messages/<pk>/mark_read/: read unless the caller sent it
MessageViewSet_mark_read(u, pk) ==
    LET found == pk \in MessageViewSet_get_queryset(Cur, u)
        i == RowOf(Cur, pk)
    IN /\ Commit(IF found /\ messages[i].sender # u
                 THEN [Cur EXCEPT !.messages[i].is_read = TRUE]
                 ELSE Cur)
       /\ last' = RoomResponse("message_mark_read", u, pk, Null,
                               IF found THEN "200" ELSE "404", None, FALSE)
       /\ UNCHANGED <<conns, reqs>>

\* POST /api/chat/rooms/<pk>/mark_read/: every unread message of the room
\* the caller did not send
ChatRoomViewSet_mark_read(u, pk) ==
    LET found == pk \in DOMAIN rooms /\ u \in rooms[pk].participants
    IN /\ Commit(IF found
                 THEN [Cur EXCEPT !.messages = [i \in DOMAIN @ |->
                          IF @[i].room = pk /\ @[i].sender # u
                          THEN [@[i] EXCEPT !.is_read = TRUE] ELSE @[i]]]
                 ELSE Cur)
       /\ last' = RoomResponse("room_mark_read", u, pk, Null,
                               IF found THEN "200" ELSE "404", None, FALSE)
       /\ UNCHANGED <<conns, reqs>>

\* the bodies of PUT and PATCH: a content, a room, both, a room no row has
MessagePayloads ==
    {[content |-> "edited"], [room |-> 2],
     [room |-> 2, content |-> "edited"], [room |-> 4]}

\* the primary keys a client names: the two messages and one no row has
MessageIds == {1, 2, 3}

\* the direct room of the atl and the clerk with a message of each, and the
\* room of task 1
InitMessages ==
    /\ tasks = [t \in {1} |-> NewTask("todo", 2, {3})]
    /\ activity = <<>>
    /\ assignments = <<>>
    /\ rooms = [r \in {1, 2} |->
                    [room_type |-> IF r = 1 THEN "direct" ELSE "task",
                     task |-> IF r = 1 THEN None ELSE 1,
                     participants |-> {2, 3}, updated_at |-> r]]
    /\ clock = 5
    /\ messages = <<[id |-> 1, room |-> 1, sender |-> 2, content |-> "hi",
                     timestamp |-> 3, is_read |-> FALSE],
                    [id |-> 2, room |-> 1, sender |-> 3, content |-> "hi",
                     timestamp |-> 4, is_read |-> FALSE]>>
    /\ notifRows = <<>>
    /\ is_online = [u \in Users |-> FALSE]
    /\ pushes = <<>>
    /\ groups = {}
    /\ inbox = [c \in Channels |-> <<>>]
    /\ conns = [c \in Channels |->
                    Consumer("ChatConsumer", IF c = "c1" THEN 2 ELSE 3,
                             NoGroup)]
    /\ reqs = {}
    /\ last = NoResponse

NextMessages ==
    \/ \E u \in Users, pk \in MessageIds, data \in MessagePayloads,
          partial \in BOOLEAN : MessageViewSet_update(u, pk, data, partial)
    \/ \E u \in Users, pk \in MessageIds : MessageViewSet_destroy(u, pk)
    \/ \E u \in Users, pk \in MessageIds : MessageViewSet_mark_read(u, pk)
    \/ \E u \in Users, pk \in {1, 2, 3} : ChatRoomViewSet_mark_read(u, pk)

SpecMessages == InitMessages /\ [][NextMessages]_vars

----------------------------------------------------------------------------
(* ChatConsumer.receive (apps/chat/consumers.py): the frames that reach no *)
(* handler.                                                                *)

\* the texts a client sends: no JSON at all, JSON that is no object (an
\* array, a string, a number, null), an object without a type, an object
\* with a type receive does not know
Texts ==
    {[json |-> "invalid", type |-> Null],
     [json |-> "array", type |-> Null],
     [json |-> "null", type |-> Null],
     [json |-> "object", type |-> Null],
     [json |-> "object", type |-> "ping"]}

\* json.loads: JSONDecodeError for a text that is no JSON
json_loads(text_data) == text_data.json # "invalid"

\* data.get('type') of what json.loads returned: lists, strings, numbers
\* and None have no get, the call raises AttributeError
has_get(text_data) == text_data.json = "object"

\* ChatConsumer.receive of a text that reaches none of the four handlers:
\* a JSONDecodeError is caught and the frame dropped, the AttributeError of
\* data.get is not caught and ends the consumer without its disconnect
\* handler, an object of another type is logged and dropped
receive(c, text_data) ==
    /\ text_data.type \notin {"join_room", "leave_room", "send_message",
                              "typing"}
    /\ conns' = [conns EXCEPT ![c].open =
                    ~json_loads(text_data) \/ has_get(text_data)]
    /\ last' = RoomResponse("receive", conns[c].user, None, text_data.json,
                            IF json_loads(text_data) /\ ~has_get(text_data)
                            THEN "error" ELSE "ok", None, FALSE)
    /\ UNCHANGED <<tasks, activity, assignments, rooms, messages, notifRows,
                   is_online, pushes, groups, inbox, reqs, clock>>

\* the frames of the two sockets, each handled from its first to its last
\* statement
NextReceive ==
    \/ \E f \in SocketJoins : Idle(f[1]) /\ join_room(f[1], f[2], f[3])
    \/ \E f \in SocketSends : Idle(f[1]) /\ send_message(f[1], f[2])
    \/ \E c \in Channels, text_data \in Texts : Idle(c) /\ receive(c, text_data)

SpecReceive == InitSocket /\ [][NextReceive]_vars

----------------------------------------------------------------------------
(* The activity log query (apps/core/views.py) next to the task list.      *)

\* ActivityLogListView.get_queryset: every entry for a supervisor, for an
\* atl the entries of the tasks that have a clerk or atm assignee, for the
\* others the entries of the tasks assigned to them; then the task_id
\* filter of the query string
ActivityLogListView_get_queryset(w, u, task_id) ==
    LET task_ids ==
            CASE role[u] = "supervisor" -> DOMAIN w.tasks
              [] role[u] = "atl" ->
                    {t \in DOMAIN w.tasks :
                        \E a \in w.tasks[t].assigned_to :
                            role[a] \in {"clerk", "atm"}}
              [] OTHER -> {t \in DOMAIN w.tasks : u \in w.tasks[t].assigned_to}
    IN {i \in DOMAIN w.activity :
            /\ w.activity[i].task \in task_ids
            /\ task_id # None => w.activity[i].task = task_id}

\* GET /api/activity-logs/?task_id=
ActivityLogListView_list(u, task_id) ==
    /\ last' = Response("activity_logs", u, task_id, Null, "200",
                        ActivityLogListView_get_queryset(Cur, u, task_id))
    /\ UNCHANGED <<tasks, activity, assignments, rooms, messages, notifRows,
                   is_online, pushes, groups, inbox, conns, reqs, clock>>

\* GET /api/tasks/
TaskViewSet_list(u) ==
    /\ last' = Response("list", u, None, Null, "200", get_queryset(Cur, u))
    /\ UNCHANGED <<tasks, activity, assignments, rooms, messages, notifRows,
                   is_online, pushes, groups, inbox, conns, reqs, clock>>

\* two tasks with their 'created' entries (perform_create). Tasks are
\* created by a supervisor or an atl; the creator of task 2 may be a clerk
\* by now, for change_role (apps/users/views.py) changes a role and leaves
\* Task.created_by
InitLogs ==
    /\ \E c \in Users, a1, a2 \in {{}, {2}, {3}} :
          tasks = [t \in TaskIds |->
                      IF t = 1 THEN NewTask("todo", 1, a1)
                      ELSE NewTask("todo", c, a2)]
    /\ activity = [t \in 1..2 |->
                      [task |-> t, user |-> tasks[t].created_by,
                       action |-> "created", details |-> <<>>]]
    /\ assignments = <<>>
    /\ rooms = <<>>
    /\ clock = 1
    /\ messages = <<>>
    /\ notifRows = <<>>
    /\ pushes = <<>>
    /\ groups = {}
    /\ inbox = [c \in {"c1"} |-> <<>>]
    /\ conns = [c \in {"c1"} |-> [user |-> 3, room_group_name |-> NoGroup]]
    /\ is_online = [u \in Users |-> \E c \in DOMAIN conns : conns[c].user = u]
    /\ reqs = {}
    /\ last = NoResponse

NextLogs ==
    \/ \E u \in Users, t \in TaskIds \cup {None} : ActivityLogListView_list(u, t)
    \/ \E u \in Users : TaskViewSet_list(u)
    \/ \E u \in Users, t \in TaskIds :
            update_status(u, t, [status |-> "in_progress", reason |-> Absent])

SpecLogs == InitLogs /\ [][NextLogs]_vars

----------------------------------------------------------------------------
(* update_status as its two database statements: the SELECT of get_object  *)
(* and the UPDATE of task.save(). The handler holds no lock and runs in no *)
(* transaction, so the requests of the other worker run in between.        *)

\* the bodies of the racing update_status calls
RacePayloads == {[status |-> s, reason |-> "r1"] : s \in Status}

\* update_status up to task.save(): get_object reads the row, the checks
\* run against that copy; a refusal answers at once
update_status_get(h, u, t, data) ==
    LET result == update_status_result(Cur, u, t, data)
        old    == IF t \in DOMAIN tasks THEN tasks[t].status ELSE Null
    IN /\ ~Busy(h)
       /\ IF result = "200"
          THEN /\ Len(activity) + Cardinality(reqs) < MaxLog
               /\ Park([op |-> "update_status", conn |-> h, user |-> u,
                        task |-> t, data |-> data, row |-> tasks[t]])
          ELSE /\ last' = Response("update_status", u, t, data, result, old)
               /\ UNCHANGED <<tasks, activity, assignments, rooms, messages,
                              notifRows, is_online, pushes, groups, inbox,
                              conns, reqs, clock>>

\* task.save() and what follows it: save() writes every column of the copy
\* the handler read, with the new status (and completed_at), over the row;
\* the log entry and the pushes carry the status of that copy as old_status
update_status_save(r) ==
    LET stale == [Cur EXCEPT !.tasks[r.task] =
                    [r.row EXCEPT !.assigned_to = tasks[r.task].assigned_to]]
    IN /\ r.op = "update_status"
       /\ Commit(update_status_apply(stale, r.user, r.task, r.data))
       /\ reqs' = reqs \ {r}
       /\ last' = Response("update_status", r.user, r.task, r.data, "200",
                           r.row.status)
       /\ UNCHANGED conns

\* two workers serve update_status, and bulk_update commits in between
NextStatusRace ==
    \/ \E h \in Workers, u \in {1, 3}, data \in RacePayloads :
            update_status_get(h, u, 1, data)
    \/ \E r \in reqs : update_status_save(r)
    \/ \E ids \in {{1}}, data \in Patches : bulk_update(1, ids, data)

SpecStatusRace == InitTask /\ [][NextStatusRace]_vars

----------------------------------------------------------------------------
(* respond_assignment as its database statements: the SELECT of the        *)
(* assignment with the check of its status, and the writes. The handler    *)
(* holds no lock and runs in no transaction.                               *)

\* respond_assignment up to the check of assignment.status: the task and
\* the caller's assignment are read; a refusal answers at once
respond_assignment_get(h, u, t, data) ==
    LET result == respond_assignment_result(Cur, u, t, data)
        old    == IF data.assignment_id \in DOMAIN assignments
                  THEN assignments[data.assignment_id] ELSE Null
    IN /\ ~Busy(h)
       /\ IF result = "200"
          THEN /\ Len(activity) + Cardinality(reqs) < MaxAssignLog
               /\ Park([op |-> "respond_assignment", conn |-> h, user |-> u,
                        task |-> t, data |-> data, old |-> old])
          ELSE /\ last' = Response("respond_assignment", u, t, data, result,
                                   old)
               /\ UNCHANGED <<tasks, activity, assignments, rooms, messages,
                              notifRows, is_online, pushes, groups, inbox,
                              conns, reqs, clock>>

\* the branch the handler took on the row it read: assignment.save(), for
\* accept task.assigned_to.add, the log entry, the push, the system message
respond_assignment_write(r) ==
    /\ r.op = "respond_assignment"
    /\ Commit(IF r.data.action = "accept"
              THEN respond_assignment_accept(Cur, r.user, r.task,
                        r.data.assignment_id, r.data.reason)
              ELSE respond_assignment_reject(Cur, r.user, r.task,
                        r.data.assignment_id, r.data.reason))
    /\ reqs' = reqs \ {r}
    /\ last' = Response("respond_assignment", r.user, r.task, r.data, "200",
                        r.old)
    /\ UNCHANGED conns

\* the supervisor proposes task 1 to the clerk; the clerk answers from two
\* workers
NextRespondRace ==
    \/ \E h \in Workers : propose_assignment(h, 1, 1, <<3>>)
    \/ \E r \in reqs : propose_assignment_get(r)
    \/ \E r \in reqs : propose_assignment_create(r)
    \/ \E r \in reqs : propose_assignment_log(r)
    \/ \E h \in Workers, data \in RespondPayloads :
            respond_assignment_get(h, 3, 1, data)
    \/ \E r \in reqs : respond_assignment_write(r)

SpecRespondRace == InitAssign /\ [][NextRespondRace]_vars

----------------------------------------------------------------------------
(* The ways a Message row is made (apps/chat): POST /api/chat/messages/,   *)
(* POST /api/chat/messages/upload_attachment/ and the send_message frame   *)
(* of the chat socket, by a participant of the room and by another user.   *)

\* _broadcast_message_via_websocket: group_send of the stored message to
\* the group of its room; an exception of the layer is logged
_broadcast_message_via_websocket(w, msg) ==
    LET room == w.rooms[msg.room]
    IN group_send(w, group_name(room.room_type, msg.room),
           [type |-> "chat_message",
            message |-> [id |-> msg.id, content |-> msg.content,
                         sender |-> [id |-> msg.sender,
                                     username |-> username[msg.sender]],
                         timestamp |-> msg.timestamp,
                         room_type |-> room.room_type,
                         room_id |-> msg.room,
                         attachments |-> <<>>]])

\* MessageCreateSerializer on a POST: room is required and names a row of
\* ChatRoom.objects.all(), content is optional
MessageCreateSerializer_is_valid_create(w, data) ==
    "room" \in DOMAIN data /\ data.room \in DOMAIN w.rooms

\* POST /api/chat/messages/: serializer.save(sender=request.user,
\* is_read=True), then the broadcast
MessageViewSet_create(u, data) ==
    LET valid == MessageCreateSerializer_is_valid_create(Cur, data)
        w1 == Message_create(Cur, data.room, u, data.content, TRUE)
        msg == w1.messages[Len(messages) + 1]
    IN /\ valid => Len(messages) < MaxChat
       /\ Commit(IF valid THEN _broadcast_message_via_websocket(w1, msg)
                 ELSE Cur)
       /\ last' = RoomResponse("message_create", u, data.room, Null,
                               IF valid THEN "201" ELSE "400", None, FALSE)
       /\ UNCHANGED <<conns, reqs>>

\* the response of upload_attachment, in the order of its checks
upload_attachment_result(w, u, room_id) ==
    CASE room_id = None                         -> "400"
      [] room_id \notin DOMAIN w.rooms          -> "404"
      [] u \notin w.rooms[room_id].participants -> "403"
      [] OTHER                                  -> "201"

\* POST /api/chat/messages/upload_attachment/
upload_attachment(u, room_id) ==
    LET result == upload_attachment_result(Cur, u, room_id)
    IN /\ result = "201" => Len(messages) < MaxChat
       /\ Commit(IF result = "201"
                 THEN Message_create(Cur, room_id, u, "", TRUE)
                 ELSE Cur)
       /\ last' = RoomResponse("upload_attachment", u, room_id, Null, result,
                               None, FALSE)
       /\ UNCHANGED <<conns, reqs>>

\* the bodies of POST /api/chat/messages/: into the direct room, the group
\* room, a room no row has
PostPayloads == [room : {1, 2, 4}, content : {"hi"}]

\* the send_message frames: of the supervisor and of the clerk into the
\* direct room and the group room by their ids, and to the atl by user id
PostFrames ==
    {<<c, [room_type |-> t, room_id |-> r, message |-> "hi"]>> :
        c \in Channels, t \in {"direct", "group"}, r \in {1, 2}}

\* the direct room of the atl and the clerk and a group room of the two;
\* the supervisor, who is in neither, and the clerk have a chat socket each
InitPost ==
    /\ tasks = [t \in {1} |-> NewTask("todo", 2, {3})]
    /\ activity = <<>>
    /\ assignments = <<>>
    /\ rooms = [r \in {1, 2} |->
                    [room_type |-> IF r = 1 THEN "direct" ELSE "group",
                     task |-> None, participants |-> {2, 3},
                     updated_at |-> r]]
    /\ clock = 3
    /\ messages = <<>>
    /\ notifRows = <<>>
    /\ is_online = [u \in Users |-> u \in {1, 3}]
    /\ pushes = <<>>
    /\ groups = {}
    /\ inbox = [c \in Channels |-> <<>>]
    /\ conns = [c \in Channels |->
                    Consumer("ChatConsumer", IF c = "c1" THEN 1 ELSE 3,
                             NoGroup)]
    /\ reqs = {}
    /\ last = NoResponse

NextPost ==
    \/ \E u \in Users, data \in PostPayloads : MessageViewSet_create(u, data)
    \/ \E u \in Users, room_id \in {None, 1, 2, 4} : upload_attachment(u, room_id)
    \/ \E f \in PostFrames : send_message(f[1], f[2])

SpecPost == InitPost /\ [][NextPost]_vars

----------------------------------------------------------------------------
(* Properties of the task lifecycle *)

\* the transition table of the specification
TransitionTable ==
    [s \in Status |->
        CASE s = "todo"        -> {"in_progress", "cancelled"}
          [] s = "in_progress" -> {"review", "done", "cancelled"}
          [] s = "review"      -> {"in_progress", "done", "cancelled"}
          [] OTHER             -> {}]

\* the request reached the handler's checks: the caller can address the task
Addressed == last.result \notin {"404", "403"}

\* C1: update_status with a non-empty reason, by a caller who may address the
\* task, succeeds (the stored status becomes the target) if and only if the
\* target is in the transition table's entry of the current status; when it
\* is rejected the stored status is unchanged.
C1_TransitionIffTable ==
    (last.op = "update_status" /\ Truthy(last.data.reason) /\ Addressed) =>
        /\ last.result = "200" <=>
              /\ last.data.status \in Status
              /\ last.data.status \in TransitionTable[last.old]
        /\ tasks[last.task].status =
              IF last.result = "200" THEN last.data.status ELSE last.old

C1_Witness ==
    /\ last.op = "update_status"
    /\ last.data = [status |-> "done", reason |-> "r1"]
    /\ last.old = "review"
    /\ last.result = "200"

C1_WitnessRejected ==
    /\ last.op = "update_status"
    /\ last.data = [status |-> "in_progress", reason |-> "r1"]
    /\ last.old = "done"
    /\ last.result = "400 transition"

\* C2: every change of a task's stored status follows an edge of the
\* transition table, whichever handler performs it; a task that is done or
\* cancelled never changes status again.
C2_StatusFollowsTable ==
    [][\A t \in DOMAIN tasks \cap DOMAIN tasks' :
            tasks'[t].status # tasks[t].status =>
                tasks'[t].status \in TransitionTable[tasks[t].status]]_vars

\* C3: update_status to done or cancelled with no or an empty reason is
\* rejected, and the task row (status, completed_at), the activity log, the
\* notifications and the messages are exactly as before the call.
C3_NoReasonNoMutation ==
    [][(/\ last'.op = "update_status"
        /\ last'.data.status \in {"done", "cancelled"}
        /\ ~Truthy(last'.data.reason)) =>
            /\ last'.result # "200"
            /\ UNCHANGED <<is_online, tasks, activity, notifRows, pushes, messages,
                           inbox>>]_vars

C3_Witness ==
    /\ last.op = "update_status"
    /\ last.data = [status |-> "done", reason |-> Absent]
    /\ last.old = "in_progress"
    /\ last.result = "400 reason"

C3_WitnessEmpty ==
    /\ last.op = "update_status"
    /\ last.data = [status |-> "cancelled", reason |-> ""]
    /\ last.old = "todo"
    /\ last.result = "400 invalid"

\* the entry a status change is to leave in the log
IsStatusEntry(e, resp) ==
    /\ e.task = resp.task
    /\ e.user = resp.user
    /\ e.action = "status_changed"
    /\ e.details.old_status = resp.old
    /\ e.details.new_status = resp.data.status
    /\ Truthy(resp.data.reason) =>
            /\ "reason" \in DOMAIN e.details
            /\ e.details.reason = resp.data.reason

\* C4: a successful update_status appends exactly one status_changed entry
\* that holds the old status, the new status and the reason given; a
\* rejected update_status appends none.
C4_OneStatusEntry ==
    [][last'.op = "update_status" =>
            IF last'.result = "200"
            THEN /\ Len(activity') = Len(activity) + 1
                 /\ SubSeq(activity', 1, Len(activity)) = activity
                 /\ IsStatusEntry(activity'[Len(activity')], last')
            ELSE activity' = activity]_vars

C4_Witness ==
    /\ last.op = "update_status"
    /\ last.result = "200"
    /\ last.data = [status |-> "cancelled", reason |-> "r1"]
    /\ activity # <<>>
    /\ activity[Len(activity)].details =
            [old_status |-> "review", new_status |-> "cancelled",
             reason |-> "r1"]

\* the text a status change is to leave in the task's room
StatusText(resp) ==
    IF Truthy(resp.data.reason)
    THEN <<"Status changed to ", resp.data.status, " by ",
           username[resp.user], ". Reason: ", resp.data.reason>>
    ELSE <<"Status changed to ", resp.data.status, " by ",
           username[resp.user]>>

\* C5: a successful update_status on any task persists exactly one system
\* message with the status text in that task's room and publishes it to the
\* connections joined to that room.
C5_SystemMessageAlways ==
    [][(last'.op = "update_status" /\ last'.result = "200") =>
            /\ Len(messages') = Len(messages) + 1
            /\ LET m == messages'[Len(messages')] IN
                /\ m.room \in TaskRooms(Cur, last'.task)
                /\ m.content = StatusText(last')
                /\ \A c \in Members(Cur, <<"task", m.room>>) :
                        /\ Len(inbox'[c]) = Len(inbox[c]) + 1
                        /\ inbox'[c][Len(inbox'[c])].data.id = m.id]_vars

\* the same for a task whose room exists when the status changes
C5_SystemMessageInExistingRoom ==
    [][(/\ last'.op = "update_status"
        /\ last'.result = "200"
        /\ TaskRooms(Cur, last'.task) # {}) =>
            /\ Len(messages') = Len(messages) + 1
            /\ LET m == messages'[Len(messages')] IN
                /\ m.room \in TaskRooms(Cur, last'.task)
                /\ m.content = StatusText(last')
                /\ \A c \in Members(Cur, <<"task", m.room>>) :
                        /\ Len(inbox'[c]) = Len(inbox[c]) + 1
                        /\ inbox'[c][Len(inbox'[c])].data.id = m.id]_vars
----------------------------------------------------------------------------
(* Properties of the chat rooms *)

\* C6: resolving the direct room of two users gives the same room id
\* whichever of the two calls and however often: after
\* get_or_create_direct(u1, u2), the calls get_or_create_direct(u2, u1) and
\* get_or_create_direct(u1, u2) return that room, create none and change
\* nothing; and the room a join_room resolved for its caller is the room
\* the other user resolves.
C6_SameDirectRoom ==
    /\ \A u1 \in Users, u2 \in Users :
          LET a == get_or_create_direct(Cur, u1, u2)
              b == get_or_create_direct(a.w, u2, u1)
              c == get_or_create_direct(b.w, u1, u2)
          IN /\ b.room = a.room /\ ~b.created /\ b.w = a.w
             /\ c.room = a.room /\ ~c.created /\ c.w = a.w
    /\ (last.op = "join_room" /\ last.data = "direct" /\ last.task \in Users)
          => LET back == get_or_create_direct_room_id(Cur, last.task,
                                                      last.user)
             IN back.room = last.room /\ ~back.created

\* the clerk joined the direct room the atl's join had created
C6_Witness ==
    /\ last.op = "join_room" /\ last.data = "direct"
    /\ last.user = 3 /\ last.task = 2
    /\ ~last.created
    /\ last.room \in DOMAIN rooms
    /\ rooms[last.room].participants = {2, 3}
    /\ conns["c1"].room_group_name = <<"direct", last.room>>
    /\ conns["c2"].room_group_name = <<"direct", last.room>>

\* C7: in every reachable state there is at most one direct room per
\* unordered pair of users and at most one task room per task.
C7_OneRoomPerPairAndTask ==
    /\ \A u1 \in Users : \A u2 \in Users \ {u1} :
            Cardinality(DirectRooms(Cur, u1, u2)) <= 1
    /\ \A t \in DOMAIN tasks : Cardinality(TaskRooms(Cur, t)) <= 1

\* the half of it the unique constraint of ChatRoom enforces
C7_OneRoomPerTask ==
    \A t \in DOMAIN tasks : Cardinality(TaskRooms(Cur, t)) <= 1

\* a POST of a direct room left a second room of the pair: its lookup ran
\* before, its INSERT after, the INSERT of a join_room
C7_WitnessHttpRace ==
    /\ last.op = "create_room" /\ last.data = "direct" /\ last.created
    /\ Cardinality(DirectRooms(Cur, 2, 3)) = 2
    /\ \E c \in Channels :
            /\ conns[c].room_group_name # NoGroup
            /\ conns[c].room_group_name # <<"direct", last.room>>

\* an INSERT of a task room met the room of a concurrent request
C7_WitnessTaskRace ==
    /\ last.op = "create_room" /\ last.data = "task"
    /\ last.result = "500"

----------------------------------------------------------------------------
(* Properties of the assignment workflow *)

\* the pushes that tell a user of a proposal for a task
ProposalPushes(t, u) ==
    {i \in DOMAIN pushes :
        /\ pushes[i].group = <<"notifications", u>>
        /\ pushes[i].data.type = "assignment_proposed"
        /\ pushes[i].data.task_id = t}

\* C8: whatever propose_assignment calls have run or are running, a (task,
\* user) pair has at most one assignment row and was sent at most one
\* proposal notification, one per row; and when a propose_assignment call
\* has returned, every user it named has exactly one row.
C8_OneAssignmentPerPair ==
    /\ \A t \in DOMAIN tasks, u \in Users :
          /\ Cardinality(AssignmentsOf(Cur, t, u)) <= 1
          /\ Cardinality(ProposalPushes(t, u))
                = Cardinality(AssignmentsOf(Cur, t, u))
    /\ (last.op = "propose_assignment" /\ last.result = "200") =>
          \A i \in DOMAIN last.data :
              last.data[i] \in Users =>
                  Cardinality(AssignmentsOf(Cur, last.task, last.data[i])) = 1

\* a second proposal for the clerk returned: no row created, one row, one
\* push, two log entries
C8_Witness ==
    /\ last.op = "propose_assignment" /\ last.result = "200"
    /\ last.data = <<3>> /\ last.created = <<>>
    /\ Len(activity) = 2
    /\ activity[1].action = "assignment_proposed"
    /\ activity[2].action = "assignment_proposed"
    /\ Cardinality(AssignmentsOf(Cur, 1, 3)) = 1
    /\ \A a \in AssignmentsOf(Cur, 1, 3) : assignments[a].status = "pending"
    /\ Cardinality(ProposalPushes(1, 3)) = 1

\* two proposals for the clerk are at the INSERT at once, and one is done
C8_WitnessConcurrent ==
    \E r \in reqs :
        /\ r.insert
        /\ AssignmentsOf(Cur, r.task, Head(r.todo)) # {}

\* a step of propose_assignment
IsPropose == reqs' # reqs \/ last'.op = "propose_assignment"

\* a step of respond_assignment that succeeds with the action
IsRespond(action) ==
    /\ ~IsPropose
    /\ last'.op = "respond_assignment"
    /\ last'.result = "200"
    /\ last'.data.action = action

\* C9: the assignment workflow changes a task's assignee set only in a
\* successful accept, which adds the responding user and nobody else;
\* every step of propose_assignment and a reject leave every assignee set
\* unchanged.
C9_OnlyAcceptAssigns ==
    [][/\ (IsPropose \/ IsRespond("reject")) =>
            \A t \in DOMAIN tasks : tasks'[t].assigned_to = tasks[t].assigned_to
       /\ \A t \in DOMAIN tasks :
            tasks'[t].assigned_to # tasks[t].assigned_to =>
                /\ IsRespond("accept")
                /\ last'.task = t
                /\ assignments[last'.data.assignment_id].user = last'.user
                /\ tasks'[t].assigned_to
                        = tasks[t].assigned_to \cup {last'.user}]_vars

\* the clerk rejected a proposal and is no assignee
C9_Witness ==
    /\ last.op = "respond_assignment" /\ last.result = "200"
    /\ last.data.action = "reject"
    /\ last.user = 3
    /\ assignments[last.data.assignment_id].status = "rejected"
    /\ tasks[1].assigned_to = {}

\* the pending assignment of the responding user that the payload names
OwnPending(resp) ==
    /\ resp.data.assignment_id \in AssignmentsOf(Cur, resp.task, resp.user)
    /\ assignments[resp.data.assignment_id].status = "pending"

\* C10: when the proposed user responds accept to their pending assignment,
\* the call succeeds, the assignment is accepted with responded_at stamped
\* with the time of the call and the reason stored (empty when none was
\* given), and the user is an assignee of the task.
C10_AcceptAssigns ==
    [][(/\ ~IsPropose
        /\ last'.op = "respond_assignment"
        /\ last'.data.action = "accept"
        /\ last'.task \in DOMAIN tasks
        /\ OwnPending(last')) =>
            LET a == last'.data.assignment_id IN
            /\ last'.result = "200"
            /\ assignments'[a].status = "accepted"
            /\ assignments'[a].responded_at = clock
            /\ assignments'[a].responded_at # None
            /\ assignments'[a].reason =
                    IF Truthy(last'.data.reason) THEN last'.data.reason
                    ELSE ""
            /\ last'.user \in tasks'[last'.task].assigned_to]_vars

\* the clerk accepted with a reason
C10_Witness ==
    /\ last.op = "respond_assignment" /\ last.result = "200"
    /\ last.data.action = "accept" /\ last.data.reason = "r1"
    /\ last.user = 3
    /\ assignments[last.data.assignment_id].status = "accepted"
    /\ assignments[last.data.assignment_id].reason = "r1"
    /\ 3 \in tasks[1].assigned_to

\* C11: accepted and rejected are terminal. respond_assignment by the
\* proposed user, with action accept or reject, on their assignment whose
\* status is not pending returns AlreadyResponded (400) and leaves the
\* assignment and every assignee set unchanged; and no step of the workflow
\* changes the status, reason or responded_at of an assignment that is
\* accepted or rejected.
C11_RespondedIsTerminal ==
    [][/\ (/\ ~IsPropose
            /\ last'.op = "respond_assignment"
            /\ last'.data.action \in {"accept", "reject"}
            /\ last'.data.assignment_id
                    \in AssignmentsOf(Cur, last'.task, last'.user)
            /\ assignments[last'.data.assignment_id].status # "pending") =>
                /\ last'.result = "400 responded"
                /\ assignments' = assignments
                /\ tasks' = tasks
       /\ \A a \in DOMAIN assignments :
            assignments[a].status # "pending" =>
                assignments'[a] = assignments[a]]_vars

\* the clerk, who had accepted, responds reject
C11_Witness ==
    /\ last.op = "respond_assignment"
    /\ last.result = "400 responded"
    /\ last.user = 3
    /\ last.data.action = "reject"
    /\ last.old.status = "accepted"
    /\ assignments[last.data.assignment_id].status = "accepted"
    /\ 3 \in tasks[1].assigned_to

\* C12: respond_assignment by a user other than the one the assignment was
\* proposed to fails, with NotFound (404) when the action is accept or
\* reject, and changes no assignment and no assignee set, whatever the role
\* of that user.
C12_OnlyTheProposedUserResponds ==
    [][(/\ ~IsPropose
        /\ last'.op = "respond_assignment"
        /\ last'.data.assignment_id \in DOMAIN assignments
        /\ assignments[last'.data.assignment_id].user # last'.user) =>
            /\ last'.result # "200"
            /\ last'.data.action \in {"accept", "reject"} =>
                    last'.result \in {"404", "404 assignment"}
            /\ assignments' = assignments
            /\ tasks' = tasks]_vars

\* the supervisor accepts the pending assignment of the clerk
C12_Witness ==
    /\ last.op = "respond_assignment"
    /\ last.result = "404 assignment"
    /\ last.user = 1
    /\ last.data.action = "accept"
    /\ last.data.assignment_id \in DOMAIN assignments
    /\ last.old.user = 3
    /\ last.old.status = "pending"
    /\ assignments[last.data.assignment_id] = last.old
    /\ tasks[1].assigned_to = {}

----------------------------------------------------------------------------
(* Properties of the bulk operations *)

BulkOps == {"bulk_update", "bulk_assign", "bulk_delete"}

\* the step answers a bulk call: a refusal, or the end of its transaction
BulkAnswer == reqs' \subseteq reqs /\ last'.op \in BulkOps

\* the call is one the specification rejects: the role, the id list, the patch
Rejected(resp) ==
    \/ resp.op \in {"bulk_update", "bulk_assign"}
         /\ role[resp.user] \notin {"supervisor", "atl"}
    \/ resp.op = "bulk_delete" /\ role[resp.user] # "supervisor"
    \/ resp.task = <<>>
    \/ /\ resp.op = "bulk_update"
       /\ "status" \in DOMAIN resp.data
       /\ resp.data.status \notin Status

\* C13: a bulk call that is rejected (bulk_update or bulk_assign by a role
\* other than supervisor or atl, bulk_delete by a role other than supervisor,
\* an empty id list, a bulk_update patch that fails validation) returns an
\* error and leaves every task row, assignee set and activity log entry as
\* before.
C13_RejectedBulkChangesNothing ==
    [][(BulkAnswer /\ Rejected(last')) =>
            /\ last'.result # "200"
            /\ tasks' = tasks
            /\ activity' = activity
            /\ assignments' = assignments
            /\ messages' = messages
            /\ pushes' = pushes]_vars

C13_Witness ==
    /\ last.op = "bulk_update"
    /\ last.result = "400 invalid"
    /\ last.user = 1
    /\ last.task = <<2, 1>>
    /\ activity = <<>>
    /\ \A t \in TaskIds : tasks[t].status = "todo"

C13_WitnessForbidden ==
    /\ last.op = "bulk_delete"
    /\ last.result = "403"
    /\ last.user = 2
    /\ DOMAIN tasks = TaskIds

\* the step commits a transaction
Commits == Cardinality(reqs') < Cardinality(reqs) /\ last'.result = "200"

\* C14: an exception raised inside bulk_update, bulk_assign or bulk_delete
\* after the rows are locked and before commit leaves every task row, its
\* assignee set and the activity log as they were, and the rows the other
\* transactions read change only when a bulk call commits, never in between.
C14_RollbackLeavesNoTrace ==
    [][~Commits =>
            /\ tasks' = tasks
            /\ activity' = activity
            /\ assignments' = assignments
            /\ rooms' = rooms
            /\ messages' = messages
            /\ notifRows' = notifRows]_vars

C14_Witness ==
    /\ last.op = "bulk_assign"
    /\ last.result = "500"
    /\ Len(last.reported) = 1
    /\ Len(last.old.activity) = 1
    /\ \E t \in DOMAIN tasks :
          /\ last.reported = <<t>>
          /\ 3 \in last.old.tasks[t].assigned_to
          /\ 3 \notin tasks[t].assigned_to
    /\ activity = <<>>
    /\ Busy("h1") \/ Busy("h2")

\* the call passes the checks the specification names: role, ids, users
AcceptedAssign(resp) ==
    /\ resp.op = "bulk_assign"
    /\ role[resp.user] \in {"supervisor", "atl"}
    /\ resp.task # <<>>
    /\ Range(resp.data.user_ids) \cap Users # {}
    /\ resp.result # "500"

\* the permitted subset of the specification
PermittedSubset(u, ids) ==
    {t \in Range(ids) \cap DOMAIN tasks :
        \/ role[u] = "supervisor"
        \/ tasks[t].created_by = u
        \/ \E a \in tasks[t].assigned_to : role[a] \in {"clerk", "atm"}}

\* C16: bulk_assign with replace=true leaves each permitted task's assignee
\* set equal to exactly the given users; with replace=false the set becomes
\* the union of the old set and the given users (so that a second call with
\* the same users changes nothing).
C16_BulkAssignSetOrUnion ==
    [][(BulkAnswer /\ AcceptedAssign(last')) =>
            \A t \in PermittedSubset(last'.user, last'.task) :
                /\ t \in DOMAIN tasks'
                /\ tasks'[t].assigned_to =
                      IF last'.data.replace
                      THEN Range(last'.data.user_ids) \cap Users
                      ELSE tasks[t].assigned_to
                              \cup (Range(last'.data.user_ids) \cap Users)]_vars

\* the same, for the calls of a supervisor
C16_SupervisorAssignSetOrUnion ==
    [][(BulkAnswer /\ AcceptedAssign(last') /\ last'.user = 1) =>
            \A t \in PermittedSubset(last'.user, last'.task) :
                /\ t \in DOMAIN tasks'
                /\ tasks'[t].assigned_to =
                      IF last'.data.replace
                      THEN Range(last'.data.user_ids) \cap Users
                      ELSE tasks[t].assigned_to
                              \cup (Range(last'.data.user_ids) \cap Users)]_vars

C16_WitnessReplace ==
    /\ last.op = "bulk_assign" /\ last.result = "200" /\ last.data.replace
    /\ 1 \in DOMAIN tasks /\ tasks[1].assigned_to = {3}
    /\ last.reported = <<2, 1>>

C16_WitnessAtl ==
    /\ last.op = "bulk_assign"
    /\ last.user = 2
    /\ last.result = "500 NotSupportedError"
    /\ last.task = <<2, 1>>
    /\ last.data.user_ids = <<3>>
    /\ tasks[2].assigned_to = {}

\* the call passes the checks the specification names and no exception is
\* injected into it
AcceptedBulk(resp) ==
    /\ resp.op \in BulkOps
    /\ ~Rejected(resp)
    /\ resp.op = "bulk_assign" => Range(resp.data.user_ids) \cap Users # {}
    /\ resp.result # "500"

\* C17: in a bulk call, ids that do not exist and ids of tasks outside the
\* caller's permitted subset are silently excluded: the call succeeds,
\* exactly the permitted existing rows are reported, and every excluded row
\* is unchanged.
C17_ExcludedIdsAreSkipped ==
    [][(BulkAnswer /\ AcceptedBulk(last')) =>
            /\ last'.result = "200"
            /\ Range(last'.reported) = PermittedSubset(last'.user, last'.task)
            /\ \A t \in DOMAIN tasks \ PermittedSubset(last'.user, last'.task) :
                    t \in DOMAIN tasks' /\ tasks'[t] = tasks[t]]_vars

\* the same, bulk_assign by an atl left aside
C17_ExcludedIdsAreSkippedElsewhere ==
    [][(/\ BulkAnswer /\ AcceptedBulk(last')
        /\ ~(last'.op = "bulk_assign" /\ last'.user = 2)) =>
            /\ last'.result = "200"
            /\ Range(last'.reported) = PermittedSubset(last'.user, last'.task)
            /\ \A t \in DOMAIN tasks \ PermittedSubset(last'.user, last'.task) :
                    t \in DOMAIN tasks' /\ tasks'[t] = tasks[t]]_vars

C17_WitnessPartial ==
    /\ last.op = "bulk_update" /\ last.user = 2 /\ last.result = "200"
    /\ last.task = <<2, 1>> /\ last.reported = <<2>>
    /\ tasks[2].priority = "high" /\ tasks[1].priority = "normal"

C17_WitnessNonexistent ==
    /\ last.op = "bulk_delete" /\ last.result = "200"
    /\ last.task = <<2, 3>> /\ last.reported = <<2>>
    /\ DOMAIN tasks = {1}

\* request r waits for a row that request q holds
WaitsFor(r, q) == r.todo # <<>> /\ Head(r.todo) \in q.locked

NoWaitCycle ==
    \A r \in reqs : \A q \in reqs \ {r} : ~(WaitsFor(r, q) /\ WaitsFor(q, r))

\* C18: two concurrent bulk calls whose id lists overlap and come in
\* different orders never deadlock: no two calls wait for each other's row
\* locks, and each call eventually commits or rolls back, which releases
\* its locks.
C18_NoDeadlock ==
    /\ []NoWaitCycle
    /\ \A h \in Workers : Busy(h) ~> ~Busy(h)

C18_Witness ==
    \E r \in reqs : \E q \in reqs \ {r} :
        /\ r.ids = <<1, 2>> /\ q.ids = <<2, 1>>
        /\ WaitsFor(r, q)
        /\ q.locked = {1, 2}
        /\ r.locked = {}

----------------------------------------------------------------------------
(* Properties of the broadcast layer's failures *)

\* the error frames a connection has received
ErrorFrames(box) == SelectSeq(box, LAMBDA f : f.type = "error")

\* update_status answers and stores what it does when delivery succeeds
C15_StatusFailureSwallowed ==
    [][last'.op = "update_status" =>
        LET expected == IF last'.result = "200"
                        THEN update_status_apply(Cur, last'.user, last'.task,
                                                 last'.data)
                        ELSE Cur
        IN /\ last'.result =
                update_status_result(Cur, last'.user, last'.task, last'.data)
           /\ tasks' = expected.tasks
           /\ activity' = expected.activity
           /\ messages' = expected.messages
           /\ notifRows' = expected.notifRows]_vars

\* C15: a failure of the broadcast layer while delivering a notification or
\* a chat event is swallowed in every operation: the caller gets the result
\* it gets when delivery succeeds (update_status its response, a socket
\* send_message no error frame for a message that was stored), and what the
\* operation persisted stays committed.
C15_BroadcastFailureSwallowed ==
    [][/\ last'.op = "update_status" =>
            LET expected == IF last'.result = "200"
                            THEN update_status_apply(Cur, last'.user,
                                                     last'.task, last'.data)
                            ELSE Cur
            IN /\ last'.result = update_status_result(Cur, last'.user,
                                                      last'.task, last'.data)
               /\ tasks' = expected.tasks
               /\ activity' = expected.activity
               /\ messages' = expected.messages
               /\ notifRows' = expected.notifRows
       /\ (last'.op = "send_message" /\ Len(messages') > Len(messages)) =>
            /\ last'.result = "ok"
            /\ \A c \in DOMAIN inbox :
                    ErrorFrames(inbox'[c]) = ErrorFrames(inbox[c])]_vars

C15_WitnessStatus ==
    /\ last.op = "update_status" /\ last.result = "200"
    /\ Len(messages) = 2 /\ messages[2].is_read
    /\ Len(activity) = 1
    /\ \A i \in DOMAIN pushes : pushes[i].data.type # "status_change"
    /\ \A c \in DOMAIN inbox : Len(inbox[c]) <= 1
    /\ tasks[1].status = "in_progress"

C15_WitnessErrorFrame ==
    /\ last.op = "send_message" /\ last.result = "error"
    /\ Len(messages) = 1 /\ messages[1].content = "hi"
    /\ \E c \in DOMAIN inbox : ErrorFrames(inbox[c]) # <<>>

----------------------------------------------------------------------------
(* Properties of the handshake *)

\* the token is one that verifies and names a user row
Authentic(token) ==
    /\ token.text = "jwt"
    /\ token.signed
    /\ ~token.expired
    /\ token.user_id \in Users

\* the channels that are in some channel-layer group
Grouped == {m[2] : m \in groups}

\* C19: a handshake on the chat or the notification endpoint none of whose
\* sources holds a token that verifies and names an existing user (nothing,
\* a malformed string, an expired or badly signed token, a token of a
\* deleted user) is answered by close without accept, and its channel is in
\* no group and has no socket that a frame could be sent to; the only
\* channels in groups or with a socket are those of accepted handshakes.
C19_BadCredentialNeverAccepted ==
    /\ (last.op = "connect"
          /\ \A s \in Sources : ~Authentic(last.handshake[s]))
        => /\ last.result = "closed"
           /\ last.conn \notin DOMAIN conns
           /\ last.conn \notin DOMAIN inbox
           /\ last.conn \notin Grouped
    /\ \A c \in DOMAIN inbox \cup Grouped :
            c \in DOMAIN conns /\ conns[c].user \in Users

\* an expired token was refused on the notification endpoint after the
\* clerk was notified over another socket
C19_Witness ==
    /\ last.op = "connect"
    /\ last.consumer = "NotificationConsumer"
    /\ last.handshake["query"] = Jwt(3, TRUE, TRUE)
    /\ last.result = "closed"
    /\ \E c \in DOMAIN inbox : Len(inbox[c]) > 0
    /\ last.conn \notin DOMAIN inbox

\* the token of a deleted user was refused on the chat endpoint
C19_WitnessDeletedUser ==
    /\ last.op = "connect"
    /\ last.consumer = "ChatConsumer"
    /\ last.handshake["query"] = Jwt(4, TRUE, FALSE)
    /\ last.result = "closed"

\* the handshake offers one token, which verifies and names a user
OneValidToken(h) ==
    /\ Cardinality({s \in Sources : h[s] # NoToken}) = 1
    /\ \E s \in Sources : Authentic(h[s])

\* the source of the one token the handshake offers
TokenUser(h) == (CHOOSE s \in Sources : h[s] # NoToken)

\* C20: a handshake with a valid access token in one of the first offered
\* sub-protocol, the access cookie and the token query parameter is
\* accepted by both consumers, and the consumer's user is the token's user.
C20_ValidTokenAcceptedFromAnySource ==
    (last.op = "connect" /\ OneValidToken(last.handshake))
        => /\ last.result = "accepted"
           /\ last.conn \in DOMAIN conns
           /\ conns[last.conn].user
                = last.handshake[TokenUser(last.handshake)].user_id

\* the same for a token in the query parameter, the source connect reads
C20_ValidQueryTokenAccepted ==
    (last.op = "connect" /\ Authentic(last.handshake["query"]))
        => /\ last.result = "accepted"
           /\ last.conn \in DOMAIN conns
           /\ conns[last.conn].consumer = last.consumer
           /\ conns[last.conn].user = last.handshake["query"].user_id

\* a valid token in the access cookie, which the middleware put into the
\* scope, and the consumer closed the connection
C20_WitnessCookie ==
    /\ last.op = "connect"
    /\ Authentic(last.handshake["cookie"])
    /\ last.scope.user = last.handshake["cookie"].user_id
    /\ last.result = "closed"

\* the claim's structural check: not empty, not "none" or "null" in any
\* letter case, exactly three dot-separated segments
StructurallyValid(token) ==
    /\ token # NoToken
    /\ token.text \notin {"", "none", "None", "NONE", "null", "Null", "NULL"}
    /\ token.dots = 2

\* the first structurally valid candidate in the order sub-protocol, cookie,
\* query parameter; NoToken when there is none
FirstCandidate(h) ==
    IF StructurallyValid(h["subprotocol"]) THEN h["subprotocol"]
    ELSE IF StructurallyValid(h["cookie"]) THEN h["cookie"]
    ELSE IF StructurallyValid(h["query"]) THEN h["query"]
    ELSE NoToken

\* C21: the handshake is decided by the first structurally valid candidate
\* in the order sub-protocol, access cookie, token query parameter: the
\* connection is accepted exactly when that candidate verifies, as that
\* candidate's user, and a later source is not consulted when the chosen
\* candidate fails verification.
C21_FirstValidCandidateDecides ==
    last.op = "connect"
        => LET chosen == FirstCandidate(last.handshake)
           IN IF chosen # NoToken /\ Authentic(chosen)
              THEN /\ last.result = "accepted"
                   /\ last.user = chosen.user_id
              ELSE last.result = "closed"

\* the same of the middlewares alone: scope['auth_token'] is the first
\* structurally valid candidate and scope['user'] is its user, or anonymous
C21_MiddlewareChoosesFirstCandidate ==
    last.op = "connect"
        => LET chosen == FirstCandidate(last.handshake)
           IN /\ last.scope.auth_token = chosen
              /\ last.scope.user = IF chosen # NoToken /\ Authentic(chosen)
                                   THEN chosen.user_id ELSE None

\* an expired token as the sub-protocol and a valid one in the query
\* parameter: the middleware left the scope anonymous, the consumer accepted
C21_WitnessLaterSourceUsed ==
    /\ last.op = "connect"
    /\ last.handshake["subprotocol"] = Jwt(3, TRUE, TRUE)
    /\ Authentic(last.handshake["query"])
    /\ last.scope.user = None
    /\ last.result = "accepted"

----------------------------------------------------------------------------
(* Properties of the chat socket *)

\* request r is the send_message whose publish this step is
Publishes(r) == r.op = "send_message" /\ reqs' = reqs \ {r}

\* after the publish of r its connection is in the group of the resolved
\* room, that group is its current room, it was sent the chat_message of
\* its own message, and it is out of the group it was bound to before
SenderBound(r) ==
    LET c == r.conn
        g == group_name(r.room_type, r.room)
        old == conns[c].room_group_name
    IN /\ <<g, c>> \in groups'
       /\ conns'[c].room_group_name = g
       /\ Len(inbox'[c]) = Len(inbox[c]) + 1
       /\ inbox'[c][Len(inbox'[c])].type = "chat_message"
       /\ inbox'[c][Len(inbox'[c])].data.id = r.msg
       /\ (old # NoGroup /\ old # g) => <<old, c>> \notin groups'

\* C22: after every successful send_message that resolves to room R,
\* whatever frames the connection processed before (a leave_room too), the
\* sender is a member of R's group and receives its own chat_message, its
\* current room is R, and it is out of the group of its previous room.
C22_SenderJoinsResolvedRoom ==
    [][\A r \in reqs : Publishes(r) => SenderBound(r)]_vars

\* the same for a sender whose room_group_name is a group it is a member of
C22_SenderJoinsUnlessLeft ==
    [][\A r \in reqs :
            (/\ Publishes(r)
             /\ conns[r.conn].room_group_name # NoGroup
                    => <<conns[r.conn].room_group_name, r.conn>> \in groups)
            => SenderBound(r)]_vars

\* a connection left the group it still names as its room and then
\* published a message into that room without receiving it
C22_WitnessSendAfterLeave ==
    /\ last.op = "send_message" /\ last.result = "ok"
    /\ \E c \in DOMAIN inbox :
          /\ conns[c].user = last.user
          /\ conns[c].room_group_name = group_name(last.data, last.room)
          /\ <<conns[c].room_group_name, c>> \notin groups
          /\ inbox[c] = <<>>
    /\ Len(messages) = 1

\* the chat_message frames connection c was sent for a room, in order
ChatFrames(c, room_type, room) ==
    SelectSeq(inbox[c], LAMBDA f : /\ f.type = "chat_message"
                                   /\ f.data.room_type = room_type
                                   /\ f.data.room_id = room)

\* the chat_message frames of every connection and room are in
\* non-decreasing timestamp order
TimestampOrder ==
    \A c \in DOMAIN inbox, room_type \in {"direct", "task"},
       room \in DOMAIN rooms :
        LET fs == ChatFrames(c, room_type, room)
        IN \A i, j \in DOMAIN fs :
                i < j => fs[i].data.timestamp <= fs[j].data.timestamp

\* the publish of r sends the stored message, with the content of the
\* frame, to every other connection that is in the room's group
DeliveredToJoined(r) ==
    \A x \in Members(Cur, group_name(r.room_type, r.room)) \ {r.conn} :
        /\ Len(inbox'[x]) = Len(inbox[x]) + 1
        /\ inbox'[x][Len(inbox'[x])].type = "chat_message"
        /\ inbox'[x][Len(inbox'[x])].data.id = r.msg
        /\ inbox'[x][Len(inbox'[x])].data.content = r.message
        /\ inbox'[x][Len(inbox'[x])].data.content = messages[r.msg].content

\* C23: when two connections are joined to the same resolved room, every
\* send_message of one is delivered to the other with identical content,
\* and the chat_message events a connection observes for a room arrive in
\* non-decreasing timestamp order, also when connections send concurrently.
C23_DeliveredInTimestampOrder ==
    /\ [][\A r \in reqs : Publishes(r) => DeliveredToJoined(r)]_vars
    /\ []TimestampOrder

\* the delivery alone
C23_DeliveredToOtherMembers ==
    [][\A r \in reqs : Publishes(r) => DeliveredToJoined(r)]_vars

\* a connection was sent the message of another connection
C23_WitnessDelivered ==
    \E c \in DOMAIN inbox : \E i \in DOMAIN inbox[c] :
      /\ inbox[c][i].type = "chat_message"
      /\ inbox[c][i].data.sender.id # conns[c].user

\* two messages of one room reached a connection, the later one first
C23_WitnessOutOfOrder ==
    \E c \in DOMAIN inbox : \E i, j \in DOMAIN inbox[c] :
      /\ i < j
      /\ inbox[c][i].type = "chat_message"
      /\ inbox[c][j].type = "chat_message"
      /\ inbox[c][i].data.room_id = inbox[c][j].data.room_id
      /\ inbox[c][i].data.timestamp > inbox[c][j].data.timestamp

\* the connections whose disconnect handler has run
Disconnected == {c \in DOMAIN conns : ~conns[c].open}

\* this step is the disconnect of connection c
Disconnects(c) ==
    /\ c \in DOMAIN conns /\ conns[c].open
    /\ ~conns'[c].open

\* a connection that disconnected is in no group
NoStaleMembership == \A c \in Disconnected : c \notin Grouped

\* C24: after a chat or notification connection disconnected, also when its
\* client went away during a send_message, it is a member of no room group
\* and of no notification group, and the disconnect leaves every stored
\* message stored.
C24_DisconnectLeavesNoMembership ==
    /\ []NoStaleMembership
    /\ [][\A c \in DOMAIN conns : Disconnects(c) => messages' = messages]_vars

\* the same of the notification sockets alone, and the stored messages
C24_NotificationGroupLeft ==
    /\ [](\A c \in Disconnected :
            conns[c].consumer = "NotificationConsumer" => c \notin Grouped)
    /\ [][\A c \in DOMAIN conns : Disconnects(c) => messages' = messages]_vars

\* a notification socket that was in its user's group disconnected
C24_WitnessNotification ==
    /\ last.op = "disconnect"
    /\ last.consumer = "NotificationConsumer"
    /\ pushes # <<>>

\* a chat connection disconnected after it sent a message, and is still in
\* the group of the message's room
C24_WitnessStaleMember ==
    \E c \in Disconnected :
      /\ conns[c].consumer = "ChatConsumer"
      /\ <<conns[c].room_group_name, c>> \in groups
      /\ \E i \in DOMAIN messages : messages[i].sender = conns[c].user

----------------------------------------------------------------------------
(* Properties of the notifications *)

\* the notification sockets open for user u
Subscribed(u) ==
    {c \in DOMAIN inbox : /\ conns[c].consumer = "NotificationConsumer"
                          /\ conns[c].user = u}

\* this step sent connection c a notification frame
Notified(c) ==
    /\ c \in DOMAIN inbox'
    /\ Len(inbox'[c]) > Len(inbox[c])
    /\ inbox'[c][Len(inbox'[c])].type = "notification"

\* C25: a notification pushed for user U through send_notification_ws is
\* published to the group notifications_U as a send_notification event and
\* is delivered as a notification frame to every connection subscribed
\* under U, and to no connection of another user.
C25_PushReachesTheUsersSockets ==
    [][Len(pushes') = Len(pushes) + 1
        => LET e == pushes'[Len(pushes')]
           IN /\ e.type = "send_notification"
              /\ e.group[1] = "notifications"
              /\ e.group[2] \in Users
              /\ \A c \in Subscribed(e.group[2]) :
                    inbox'[c] = Append(inbox[c], [type |-> "notification",
                                                  data |-> e.data])
              /\ \A c \in DOMAIN inbox \ Subscribed(e.group[2]) :
                    ~Notified(c)]_vars

\* the clerk's notification socket holds the status change while a
\* notification socket of the atl holds nothing
C25_Witness ==
    /\ Len(pushes) = 1
    /\ pushes[1].group = <<"notifications", 3>>
    /\ \E c, x \in DOMAIN inbox :
          /\ conns[c].consumer = "NotificationConsumer"
          /\ conns[c].user = 3
          /\ inbox[c] = <<[type |-> "notification", data |-> pushes[1].data]>>
          /\ conns[x].consumer = "NotificationConsumer"
          /\ conns[x].user = 2
          /\ inbox[x] = <<>>

\* the push has a Notification row of its user and type
Stored(push) ==
    \E j \in DOMAIN notifRows :
        /\ notifRows[j].user = push.group[2]
        /\ notifRows[j].type = push.data.type

\* C26: every notification a workflow operation raises for a user (status
\* change, assignment proposed, accepted or rejected, task assigned) is
\* stored as a Notification row of that user, so that a user without an
\* open notification socket still has it.
C26_WorkflowNotificationsStored ==
    \A i \in DOMAIN pushes : Stored(pushes[i])

\* the same of the notifications of chat messages only
C26_ChatNotificationsStored ==
    \A i \in DOMAIN pushes :
        pushes[i].data.type = "chat_message" => Stored(pushes[i])

\* a message was sent and its notification is a row and a push
C26_WitnessChat ==
    \E i \in DOMAIN pushes :
      pushes[i].data.type = "chat_message" /\ Stored(pushes[i])

----------------------------------------------------------------------------
(* Properties of the stored messages *)

\* what of a Message row is fixed at its creation
Fixed(m) == [id |-> m.id, room |-> m.room, sender |-> m.sender,
             content |-> m.content, timestamp |-> m.timestamp]

\* every row of before the step is a row of after it, but for is_read
MessagesKept ==
    \A i \in DOMAIN messages :
        \E j \in DOMAIN messages' : Fixed(messages'[j]) = Fixed(messages[i])

\* C27: a persisted Message keeps its content, sender, room and timestamp
\* and is never removed, whatever the chat socket and the HTTP message
\* endpoints are asked; only its read flag changes
C27_MessagesImmutable == [][MessagesKept]_vars

\* the same of the steps that are not a PUT, PATCH or DELETE of a message:
\* the socket frames and the two mark_read endpoints keep the rows
C27_ImmutableButForModelViewSet ==
    [][last'.op \notin {"message_update", "message_partial_update",
                        "message_destroy"} => MessagesKept]_vars

\* mark_read has set the read flag of a message
C27_WitnessMarkedRead ==
    /\ last.op \in {"message_mark_read", "room_mark_read"}
    /\ \E i \in DOMAIN messages : messages[i].is_read

----------------------------------------------------------------------------
(* Properties of the failing send_message *)

\* the step is a send_message that failed
Failed == last'.op = "send_message" /\ last'.result = "error"

\* the connection of the user that sent the frame
Origin == CHOOSE c \in DOMAIN conns : conns[c].user = last'.user

\* the error frame alone to the originator, nothing stored or published,
\* the memberships and the current room as before, the connection open
ErrorHandled ==
    /\ Len(inbox'[Origin]) = Len(inbox[Origin]) + 1
    /\ SubSeq(inbox'[Origin], 1, Len(inbox[Origin])) = inbox[Origin]
    /\ inbox'[Origin][Len(inbox'[Origin])].type = "error"
    /\ \A c \in DOMAIN inbox \ {Origin} : inbox'[c] = inbox[c]
    /\ messages' = messages
    /\ groups' = groups
    /\ conns'[Origin].room_group_name = conns[Origin].room_group_name
    /\ conns'[Origin].open

\* C28: a send_message that fails on a room, task or user lookup or on
\* persistence sends exactly one error frame, to the originating
\* connection only, stores and publishes no Message, leaves the memberships
\* and the current room of the connection as they were and the connection
\* open
C28_FailedSendAnswersError == [][Failed => ErrorHandled]_vars

\* the same of the failing frames whose message is a text: the consumer
\* survives exactly those
C28_FailedTextSendAnswersError ==
    [][Failed /\ conns'[Origin].open => ErrorHandled]_vars

\* a connection sent a frame that failed, got its error frame, and then a
\* frame that was stored and published
C28_WitnessLaterFrameProcessed ==
    \E c \in DOMAIN conns :
      /\ Len(inbox[c]) = 2
      /\ inbox[c][1].type = "error"
      /\ inbox[c][2].type = "chat_message"

\* a null message ended the consumer: no error frame, the connection closed
C28_WitnessConsumerEnded ==
    \E c \in DOMAIN conns : ~conns[c].open /\ inbox[c] = <<>>

----------------------------------------------------------------------------
(* Properties of the group names *)

\* the step is a join_room
Joins == last'.op = "join_room"

\* the group a send_message with the room_type and room_id of the join
\* would publish to after it; for a task room that is the group the system
\* messages of the task go to
SendGroup ==
    LET r == save_message_room(Cur', last'.user, last'.data, last'.task)
    IN IF r.ok THEN group_name(last'.data, r.room) ELSE NoGroup

\* the join left the connection in the group the publishers publish to
SameGroup ==
    /\ SendGroup # NoGroup =>
            /\ conns'[Origin].room_group_name = SendGroup
            /\ <<SendGroup, Origin>> \in groups'
    /\ \A t \in DOMAIN tasks' :
            /\ last'.data = "task"
            /\ TaskRoomOf(Cur', t) # None
            /\ SendGroup = <<"task", TaskRoomOf(Cur', t)>>
            => <<<<"task", TaskRoomOf(Cur', t)>>, Origin>> \in groups'

\* C29: whatever room_type and room_id a join_room frame carries, it puts
\* the connection into the broadcast group that a send_message with the
\* same room_type and room_id, and the HTTP publishers of that room,
\* publish to
C29_JoinAndPublishSameGroup == [][Joins => SameGroup]_vars

\* the same of the joins whose room_id is the id of a ChatRoom row of that
\* room_type
C29_SameGroupByRoomId ==
    [][Joins /\ ChatRoom_get(Cur', last'.task, last'.data) => SameGroup]_vars

\* a connection joined the room of task 1 by the id of its ChatRoom row
C29_WitnessJoinedByRoomId ==
    /\ last.op = "join_room" /\ last.data = "task"
    /\ ChatRoom_get(Cur, last.task, "task")
    /\ <<<<"task", last.task>>, "c2">> \in groups

\* a connection joined the room of task 1 by the task's id while the room
\* has another id
C29_WitnessJoinedByTaskId ==
    /\ last.op = "join_room" /\ last.data = "task"
    /\ TaskRoomOf(Cur, last.task) \notin {None, last.task}

----------------------------------------------------------------------------
(* Properties of leave_room *)

\* the step is a leave_room
Leaves == last'.op = "leave_room"

\* the step is a typing frame of the connection whose leave_room was the
\* step before
TypesAfterLeaving ==
    last.op = "leave_room" /\ last'.op = "typing" /\ last'.user = last.user

\* the connection is in no room group and has no current room
Unbound ==
    /\ \A m \in groups' : m[2] # Origin
    /\ conns'[Origin].room_group_name = NoGroup

\* C30: after leave_room the connection is a member of no room group and
\* its current room is none, and a typing frame that follows publishes
\* nothing
C30_LeaveRoomUnbinds ==
    [][/\ Leaves => Unbound
       /\ TypesAfterLeaving => inbox' = inbox]_vars

\* what leave_room does: the connection leaves the group it is bound to
C30_LeaveRoomDiscardsBoundGroup ==
    [][Leaves => <<conns[Origin].room_group_name, Origin>> \notin groups']_vars

\* a connection left its room and its next typing frame reached the other
\* connection
C30_WitnessTypingAfterLeave ==
    /\ last.op = "typing"
    /\ \E c \in DOMAIN conns :
          /\ conns[c].user = last.user
          /\ conns[c].room_group_name # NoGroup
          /\ <<conns[c].room_group_name, c>> \notin groups
          /\ \E x \in DOMAIN inbox \ {c} :
                  \E i \in DOMAIN inbox[x] : inbox[x][i].type = "typing"

----------------------------------------------------------------------------
(* Properties of the dropped frames *)

\* the step is a frame that reached no handler
Receives == last'.op = "receive"

\* the connection is open and as before, nothing stored or published
Dropped ==
    /\ conns'[Origin].open
    /\ conns'[Origin] = conns[Origin]
    /\ groups' = groups
    /\ messages' = messages /\ rooms' = rooms /\ notifRows' = notifRows
    /\ inbox' = inbox /\ pushes' = pushes

\* C31: a frame that is no JSON, that is JSON but no object with a known
\* type, or that carries an unknown type is dropped: the connection stays
\* open, its user, current room and group memberships are as before, and
\* nothing is stored or published
C31_BadFrameDropped == [][Receives => Dropped]_vars

\* the same of the texts that are no JSON and of the JSON objects
C31_BadObjectDropped ==
    [][Receives /\ last'.data \in {"invalid", "object"} => Dropped]_vars

\* a joined connection sent a text that is no JSON and is still open and
\* in its group
C31_WitnessDropped ==
    /\ last.op = "receive" /\ last.data = "invalid"
    /\ \E c \in DOMAIN conns :
          /\ conns[c].user = last.user /\ conns[c].open
          /\ <<conns[c].room_group_name, c>> \in groups

\* a JSON array ended the consumer
C31_WitnessConsumerEnded ==
    /\ last.op = "receive" /\ last.data = "array"
    /\ \E c \in DOMAIN conns : conns[c].user = last.user /\ ~conns[c].open

----------------------------------------------------------------------------
(* Properties of the side effects of the bulk calls *)

\* the step is a bulk_update that was carried out
BulkUpdated == last'.op = "bulk_update" /\ last'.result = "200"

\* the step wrote a push for user a about task t
Pushed(a, t) ==
    \E i \in DOMAIN pushes' \ DOMAIN pushes :
        /\ pushes'[i].group = <<"notifications", a>>
        /\ pushes'[i].data.task_id = t

\* the step wrote a message into the room of task t
Said(t) ==
    \E i \in DOMAIN messages' \ DOMAIN messages :
        messages'[i].room = TaskRoomOf(Cur, t)

\* what update_status emits for a row whose status it changes: a push per
\* assignee and, in the room of the task, a system message
StatusEffects(t) ==
    tasks'[t].status # tasks[t].status =>
        /\ \A a \in tasks'[t].assigned_to : Pushed(a, t)
        /\ TaskRoomOf(Cur, t) # None => Said(t)

\* C32: a bulk call emits for every row it mutates what the single-task
\* operation emits: one activity log entry per row, one notification per
\* affected user per row and, for bulk_update and bulk_assign, a system
\* chat message in the room of the row's task
C32_BulkSideEffects ==
    [][BulkUpdated =>
        LET rows == tasks_to_update(Cur, last'.user, last'.task)
        IN /\ Len(activity') = Len(activity) + Cardinality(rows)
           /\ \A t \in rows : StatusEffects(t)]_vars

\* the part bulk_update does emit: one log entry per row
C32_BulkUpdateLogsEachRow ==
    [][BulkUpdated =>
        Len(activity') = Len(activity)
            + Cardinality(tasks_to_update(Cur, last'.user, last'.task))]_vars

\* the single-task operation emits them
C32_UpdateStatusSideEffects ==
    [][last'.op = "update_status" /\ last'.result = "200" =>
        /\ Len(activity') = Len(activity) + 1
        /\ StatusEffects(last'.task)]_vars

\* bulk_assign emits them: at its commit the log has an entry per row more,
\* every given user has a push for every row, and every row with a room has
\* a system message more
C32_BulkAssignSideEffects ==
    [][Commits /\ last'.op = "bulk_assign" =>
        /\ Len(activity') = Len(activity) + Len(last'.reported)
        /\ \A t \in Range(last'.reported) :
              /\ \A a \in UsersOf(last'.data.user_ids) :
                    \E i \in DOMAIN pushes' :
                        /\ pushes'[i].group = <<"notifications", a>>
                        /\ pushes'[i].data.task_id = t
              /\ TaskRoomOf(Cur, t) # None => Said(t)]_vars

\* bulk_update moved a task with an assignee and a room to another status;
\* there is no push and no message
C32_WitnessSilentBulkUpdate ==
    /\ last.op = "bulk_update" /\ last.result = "200"
    /\ 1 \in DOMAIN last.old /\ tasks[1].status # last.old[1]
    /\ tasks[1].assigned_to = {3}
    /\ TaskRoomOf(Cur, 1) # None
    /\ pushes = <<>> /\ messages = <<>>

\* a bulk_assign committed for a task that has a room
C32_WitnessBulkAssign ==
    /\ last.op = "bulk_assign" /\ last.result = "200"
    /\ \E t \in Range(last.reported) : TaskRoomOf(Cur, t) # None
    /\ messages # <<>> /\ pushes # <<>>

----------------------------------------------------------------------------
(* Properties of the activity log query *)

\* the tasks whose entries a log query returned
LoggedTasks(rows) == {activity[i].task : i \in rows}

\* the tasks that have an entry
TasksWithEntries == {activity[i].task : i \in DOMAIN activity}

\* the last request was a log query without a task_id
Queried == last.op = "activity_logs" /\ last.task = None

\* C33: the activity log query applies the visibility rule of the task
\* list: for every user and every task, the query returns the task's
\* entries if and only if the user can list the task
C33_LogVisibleIffTaskVisible ==
    Queried =>
        LoggedTasks(last.old) = get_queryset(Cur, last.user) \cap TasksWithEntries

\* the same of supervisors and atls; for the others the query returns
\* entries of tasks they can list only
C33_LogVisibleToRoles ==
    Queried =>
        /\ role[last.user] \in {"supervisor", "atl"} =>
                LoggedTasks(last.old)
                    = get_queryset(Cur, last.user) \cap TasksWithEntries
        /\ LoggedTasks(last.old) \subseteq get_queryset(Cur, last.user)

\* the clerk asked for the log and got the entries of the task assigned to
\* the clerk
C33_WitnessAssignee ==
    /\ Queried /\ last.user = 3 /\ last.old # {}
    /\ LoggedTasks(last.old) = get_queryset(Cur, 3)

\* the clerk lists a task the clerk created and is not assigned to
C33_WitnessCreator ==
    /\ last.op = "list" /\ last.user = 3
    /\ \E t \in last.old : tasks[t].created_by = 3 /\ 3 \notin tasks[t].assigned_to

----------------------------------------------------------------------------
(* Properties of the concurrent status changes *)

\* the step is the write of an update_status
StatusSaved == last'.op = "update_status" /\ last'.result = "200"

\* C34: when update_status runs concurrently with update_status or
\* bulk_update on one task, every status it commits is an allowed
\* transition from the status committed before it, and it overwrites no
\* field the other operation committed
C34_ConcurrentStatusChangesFollowTable ==
    [][StatusSaved =>
        /\ can_transition(tasks[last'.task].status, tasks'[last'.task].status)
        /\ tasks'[last'.task].priority = tasks[last'.task].priority]_vars

\* what update_status does ensure: the status it commits is an allowed
\* transition from the status it read
C34_ValidatedAgainstStatusRead ==
    [][StatusSaved =>
        can_transition(last'.old, tasks'[last'.task].status)]_vars

\* an update_status committed while the other worker was between its read
\* and its write
C34_WitnessInterleaved ==
    /\ last.op = "update_status" /\ last.result = "200"
    /\ reqs # {}

\* an update_status wrote back the priority it had read before a
\* bulk_update changed it
C34_WitnessLostUpdate ==
    /\ last.op = "update_status" /\ last.result = "200"
    /\ tasks[1].priority = "normal"
    /\ \E i \in DOMAIN activity : activity[i].action = "bulk_updated"

----------------------------------------------------------------------------
(* Properties of concurrent responses to one assignment *)

\* the step is the write of a respond_assignment
Responds ==
    \E r \in reqs : r.op = "respond_assignment" /\ reqs' = reqs \ {r}

\* C35: of two concurrent respond_assignment calls for one pending
\* assignment at most one takes effect, so a response that takes effect
\* finds the assignment pending, and no assignment is rejected while its
\* user stands in the task's assignee set
C35_OneResponseTakesEffect ==
    [][Responds =>
        /\ assignments[last'.data.assignment_id].status = "pending"
        /\ \A a \in DOMAIN assignments' :
              assignments'[a].status = "rejected" =>
                 assignments'[a].user
                    \notin tasks'[assignments'[a].task].assigned_to]_vars

\* what respond_assignment does ensure: a response that takes effect read
\* the assignment as pending, and a call that reads a responded assignment
\* answers 400 and writes nothing
C35_PendingWhenRead ==
    [][/\ Responds => last'.old.status = "pending"
       /\ (last'.op = "respond_assignment" /\ last'.result = "400 responded")
            => /\ assignments' = assignments /\ tasks' = tasks
               /\ last'.old.status # "pending"]_vars

\* both responses took effect: the assignment is rejected and the clerk is
\* an assignee by the accept
C35_WitnessRejectedAssignee ==
    /\ 1 \in DOMAIN assignments
    /\ assignments[1].status = "rejected"
    /\ 3 \in tasks[1].assigned_to

\* the second of two racing calls with one action wrote as well
C35_WitnessAcceptedTwice ==
    \E i, j \in DOMAIN activity :
        /\ i < j
        /\ activity[i].action = "assignment_accepted"
        /\ activity[j].action = "assignment_accepted"

----------------------------------------------------------------------------
(* Properties of the pushes of bulk_assign *)

\* the step ends a bulk_assign that went through its loop: COMMIT or ROLLBACK
AssignEnds ==
    \E r \in reqs : r.op = "bulk_assign" /\ reqs' = reqs \ {r}

\* a task_assigned push for user a about task t has left
ToldOfTask(a, t) ==
    \E i \in DOMAIN pushes' :
        /\ pushes'[i].group = <<"notifications", a>>
        /\ pushes'[i].data.type = "task_assigned"
        /\ pushes'[i].data.task_id = t

\* C36: every task_assigned notification bulk_assign sent corresponds to an
\* assignment that is committed when the call ends; no user was notified of
\* an assignment that the rollback of the call removed
C36_NotifiedOfCommittedAssignment ==
    [][AssignEnds =>
        \A t \in Range(last'.reported), a \in UsersOf(last'.data.user_ids) :
            ToldOfTask(a, t) =>
                t \in DOMAIN tasks' /\ a \in tasks'[t].assigned_to]_vars

\* what bulk_assign does ensure: when the block commits, every user it
\* notified is an assignee of the task the push names
C36_CommittedCallNotifiesAssignees ==
    [][AssignEnds /\ last'.result = "200" =>
        \A t \in Range(last'.reported), a \in UsersOf(last'.data.user_ids) :
            ToldOfTask(a, t) /\ a \in tasks'[t].assigned_to]_vars

\* a bulk_assign was rolled back after it had told the clerk of task 2,
\* which has no assignee
C36_WitnessRolledBack ==
    /\ last.op = "bulk_assign" /\ last.result = "500"
    /\ 2 \in Range(last.reported)
    /\ 3 \notin tasks[2].assigned_to
    /\ \E i \in DOMAIN pushes :
          /\ pushes[i].group = <<"notifications", 3>>
          /\ pushes[i].data.type = "task_assigned"
          /\ pushes[i].data.task_id = 2

\* a bulk_assign committed the clerk's assignment to task 2
C36_WitnessCommitted ==
    /\ last.op = "bulk_assign" /\ last.result = "200"
    /\ 2 \in Range(last.reported)
    /\ 3 \in tasks[2].assigned_to

----------------------------------------------------------------------------
(* Properties of the room memberships of a chat connection *)

\* the room groups connection c is a member of
RoomGroupsOf(c) == {m[1] : m \in {x \in groups : x[2] = c}}

\* C37: the set of room groups an open chat connection is a member of is
\* empty when its current room is none and exactly the group of its current
\* room otherwise; so join_room A followed by join_room B leaves it in B only
C37_MemberOfCurrentRoomOnly ==
    \A c \in DOMAIN conns :
        conns[c].open /\ conns[c].consumer = "ChatConsumer" =>
            RoomGroupsOf(c) = IF conns[c].room_group_name = NoGroup THEN {}
                              ELSE {conns[c].room_group_name}

\* what the consumer does ensure: a connection that never joined is in no
\* group, and the handler of a join_room or a send_message leaves the
\* connection a member of the group it made current
C37_MemberOfRoomMadeCurrent ==
    [][/\ \A c \in DOMAIN conns :
            conns[c].room_group_name = NoGroup => RoomGroupsOf(c) = {}
       /\ \A c \in DOMAIN conns :
            conns'[c].room_group_name # conns[c].room_group_name =>
                <<conns'[c].room_group_name, c>> \in groups']_vars

\* the clerk's connection joined the direct room and then the room of task
\* 1: it is a member of both groups
C37_WitnessInBothRooms ==
    /\ conns["c2"].open
    /\ last.op = "join_room"
    /\ Cardinality(RoomGroupsOf("c2")) = 2

\* a send_message made a room current: the connection is in the group of
\* that room only
C37_WitnessMovedBySend ==
    /\ last.op = "send_message" /\ last.result = "ok"
    /\ \E c \in DOMAIN conns :
          /\ conns[c].open /\ conns[c].user = last.user
          /\ RoomGroupsOf(c) = {conns[c].room_group_name}
          /\ \E i \in DOMAIN messages : messages[i].sender = last.user

----------------------------------------------------------------------------
(* Properties of the sender of a message *)

\* C38: every stored message of a direct or group room was sent by a
\* participant of its room, whether it came by the socket or by HTTP
C38_SenderIsParticipant ==
    \A i \in DOMAIN messages :
        rooms[messages[i].room].room_type \in {"direct", "group"} =>
            messages[i].sender \in rooms[messages[i].room].participants

\* the step stored a message of user u
Stores(u) ==
    /\ Len(messages') = Len(messages) + 1
    /\ messages'[Len(messages')].sender = u

\* what the code does ensure: upload_attachment stores a message of a
\* participant only, and a send_message that names a user the sender has no
\* room with stores the message in a direct room of the two
C38_UploadBySenderInRoom ==
    [][/\ last'.op = "upload_attachment" /\ Stores(last'.user) =>
            last'.user \in rooms'[messages'[Len(messages')].room].participants
       /\ (/\ last'.op = "send_message" /\ last'.data = "direct"
           /\ Stores(last'.user) /\ ~ChatRoom_get(Cur, last'.task, "direct"))
            => last'.user
                 \in rooms'[messages'[Len(messages')].room].participants]_vars

\* the supervisor's message stands in the direct room of the atl and the
\* clerk, stored by a send_message frame
C38_WitnessSocketOutsider ==
    /\ last.op = "send_message" /\ last.result = "ok" /\ last.user = 1
    /\ \E i \in DOMAIN messages :
          /\ messages[i].sender = 1 /\ messages[i].room = 1
          /\ 1 \notin rooms[1].participants

\* the supervisor's message stands in the group room, stored by a POST
C38_WitnessPostOutsider ==
    /\ last.op = "message_create" /\ last.result = "201" /\ last.user = 1
    /\ \E i \in DOMAIN messages :
          /\ messages[i].sender = 1 /\ messages[i].room = 2
          /\ 1 \notin rooms[2].participants

\* a participant uploaded into the direct room
C38_WitnessUpload ==
    /\ last.op = "upload_attachment" /\ last.result = "201"
    /\ \E i \in DOMAIN messages : messages[i].sender = last.user

----------------------------------------------------------------------------
(* Properties of is_online *)

\* the open chat connections of user u
ChatConnectionsOf(u) ==
    {c \in DOMAIN conns :
        /\ conns[c].open /\ conns[c].consumer = "ChatConsumer"
        /\ conns[c].user = u}

\* C39: is_online of a user is true in every state in which the user has at
\* least one open, accepted chat connection, also when the user has several
\* connections and they close one after the other
C39_OnlineWhileConnected ==
    \A u \in Users : ChatConnectionsOf(u) # {} => is_online[u]

\* what the consumer does ensure: is_online is what the last handshake or
\* close of a chat connection of the user made it, true after an accepted
\* connect and false after a disconnect
C39_OnlineIsLastEvent ==
    [][/\ (last'.op = "connect" /\ last'.consumer = "ChatConsumer"
           /\ last'.result = "accepted") => is_online'[last'.user]
       /\ \A c \in DOMAIN conns :
            (/\ conns[c].consumer = "ChatConsumer"
             /\ conns[c].open /\ ~conns'[c].open)
                => ~is_online'[conns[c].user]]_vars

\* the clerk had two chat connections and closed one: the other is open
\* and the clerk is offline
C39_WitnessOfflineWithOpenSocket ==
    /\ \E c \in DOMAIN conns :
          /\ conns[c].consumer = "ChatConsumer" /\ ~conns[c].open
          /\ ChatConnectionsOf(conns[c].user) # {}
          /\ ~is_online[conns[c].user]

\* a user with two open chat connections, online
C39_WitnessTwoSockets ==
    \E u \in Users : Cardinality(ChatConnectionsOf(u)) = 2 /\ is_online[u]

----------------------------------------------------------------------------
(* Properties of completed_at *)

\* the step moved task t to done
MovedToDone(t) ==
    /\ t \in DOMAIN tasks /\ t \in DOMAIN tasks'
    /\ tasks[t].status # "done" /\ tasks'[t].status = "done"

\* C40: a task whose status is done has completed_at set, whichever
\* operation moved it to done: update_status, a PATCH of the task or
\* bulk_update
C40_DoneHasCompletedAt ==
    [][\A t \in TaskIds :
          MovedToDone(t) => tasks'[t].completed_at # None]_vars

\* what the code does ensure: update_status stamps completed_at when it
\* moves a task to done, and the PATCH and bulk_update leave completed_at as
\* it was
C40_UpdateStatusStamps ==
    [][\A t \in TaskIds :
          /\ (MovedToDone(t) /\ last'.op = "update_status")
                => tasks'[t].completed_at = clock
          /\ (t \in DOMAIN tasks /\ t \in DOMAIN tasks'
              /\ last'.op \in {"partial_update", "bulk_update"})
                => tasks'[t].completed_at = tasks[t].completed_at]_vars

\* a PATCH moved the task to done and completed_at is not set
C40_WitnessPatchedToDone ==
    /\ last.op = "partial_update" /\ last.result = "200"
    /\ last.old # "done"
    /\ tasks[1].status = "done" /\ tasks[1].completed_at = None

\* update_status moved the task to done and stamped it
C40_WitnessStamped ==
    /\ last.op = "update_status" /\ last.result = "200"
    /\ tasks[1].status = "done" /\ tasks[1].completed_at # None

====
